---------------------------- MODULE Spec2Model ----------------------------
(***************************************************************************)
(* Model of the railway-reservation data pipeline:                         *)
(*   - scripts/import_data.py : SpatialIndex, RailwayDatabaseImporter      *)
(*     (import_stations, map_route_to_stations, import_trains,             *)
(*     import_schedules, run_import) over a SQLite connection;             *)
(*   - backend/app/services/seatgen.py : the seat generator.               *)
(*                                                                         *)
(* Conventions.  A Python Optional is a sequence of length at most one:    *)
(* None is <<>> and the value v is <<v>>.  A table is the sequence of its  *)
(* rows in rowid order (nothing is ever deleted, so rowid = position).     *)
(* A coordinate is a point of one meridian, in kilometres from a reference *)
(* point: on a meridian the haversine distance is the absolute difference. *)
(***************************************************************************)
EXTENDS Integers, Sequences, FiniteSets, TLC

VARIABLES
    stations_json,      \* data/stations.json : the station features
    trains_json,        \* data/trains.json : the train features
    schedules_json,     \* data/schedules.json : the schedule records
    HAS_SKLEARN,        \* whether scikit-learn could be imported
    tree_order,         \* which of several equidistant points BallTree.query reports
    pc,                 \* position of run_import
    runs,               \* number of finished run_import invocations
    conn,               \* the open connection's view: tables + last insert rowid
    disk,               \* the committed tables
    spatial_index,      \* RailwayDatabaseImporter.spatial_index (Optional)
    stats,              \* RailwayDatabaseImporter.stats
    mapped,             \* what map_route_to_stations returned, per processed feature
    exits,              \* exit status of each finished run_import, in order
    after_run           \* the committed tables as each finished run_import left them

importVars == <<stations_json, trains_json, schedules_json, HAS_SKLEARN, tree_order,
                pc, runs, conn, disk, spatial_index, stats, mapped, exits, after_run>>

VARIABLES
    seat_trains,        \* trains: the columns the seat generator reads
    train_runs,         \* train_runs: train_id, run_date, total_seats, available_seats
    seats,              \* seats: the committed seat rows
    invoked,            \* the runs some generator invocation has covered so far
    last_call,          \* the latest generator invocation and what it reported
    sessions            \* concurrent invocations of generate_seats_for_train_run

seatVars == <<seat_trains, train_runs, seats, invoked, last_call, sessions>>

vars == <<importVars, seatVars>>

---------------------------------------------------------------------------
(* Bounds of the model.                                                    *)

MaxTrains == 2          \* features in trains.json
MaxCoords == 2          \* coordinates of one route (pipeline specifications)
MaxRecords == 2         \* records in schedules.json
MaxPipelineRuns == 2    \* invocations of run_import
MapMaxCoords == 3       \* coordinates of the route (route-mapper specification)
MaxClasses == 2         \* classes of one configuration
MaxCoaches == 2         \* coaches of one class
MaxSeatsPerCoach == 2   \* seats per coach given by a configuration
MaxDays == 2            \* the days argument of generate_seats_for_runs

---------------------------------------------------------------------------
(* Python values.                                                          *)

None == <<>>
Some(v) == <<v>>

RECURSIVE SeqSum(_)
SeqSum(s) == IF s = <<>> THEN 0 ELSE Head(s) + SeqSum(Tail(s))

Min(S) == CHOOSE x \in S : \A y \in S : x <= y
Max(S) == CHOOSE x \in S : \A y \in S : x >= y

(* The strings that occur as sort keys, in Python's str order (code point  *)
(* by code point: every digit sorts before the letter N).                  *)
StrOrder == <<"00:00:00", "08:00:00", "09:30:00", "None">>
StrRank(s) == CHOOSE i \in 1..Len(StrOrder) : StrOrder[i] = s
StrLess(a, b) == StrRank(a) < StrRank(b)

---------------------------------------------------------------------------
(* SpatialIndex.                                                           *)

haversine_distance(p, q) == IF p >= q THEN p - q ELSE q - p

(* SpatialIndex.__init__ : stations_with_coords is a list of <<code, lat>>. *)
SpatialIndex(stations_with_coords) ==
    [stations_with_coords |-> stations_with_coords,
     use_tree |-> HAS_SKLEARN /\ Len(stations_with_coords) > 0,
     tree_order |-> tree_order]

(* The brute-force loop: min_dist is None for float('inf').                *)
RECURSIVE BruteForce(_, _, _, _, _)
BruteForce(swc, lat, i, min_dist, nearest_code) ==
    IF i > Len(swc) THEN [min_dist |-> min_dist, nearest_code |-> nearest_code]
    ELSE LET dist == haversine_distance(lat, swc[i][2]) IN
         IF min_dist = None \/ dist < min_dist[1]
         THEN BruteForce(swc, lat, i + 1, Some(dist), Some(swc[i][1]))
         ELSE BruteForce(swc, lat, i + 1, min_dist, nearest_code)

(* BallTree.query(point, k=1): the minimum distance and the index of one   *)
(* point at that distance; which one, among several, the library does not  *)
(* say.                                                                    *)
TreeQuery(index, lat) ==
    LET swc == index.stations_with_coords
        d(i) == haversine_distance(lat, swc[i][2])
        dist == Min({d(i) : i \in 1..Len(swc)})
        nearest == {i \in 1..Len(swc) : d(i) = dist}
    IN  [dist |-> dist,
         ind |-> IF index.tree_order = "first" THEN Min(nearest) ELSE Max(nearest)]

(* SpatialIndex.find_nearest: None or <<station_code, distance_km>>.       *)
find_nearest(index, lat, max_distance_km) ==
    LET swc == index.stations_with_coords IN
    IF Len(swc) = 0 THEN None
    ELSE IF index.use_tree
    THEN LET q == TreeQuery(index, lat) IN
         IF q.dist <= max_distance_km THEN <<swc[q.ind][1], q.dist>> ELSE None
    ELSE LET b == BruteForce(swc, lat, 1, None, None) IN
         IF b.min_dist[1] <= max_distance_km
         THEN <<b.nearest_code[1], b.min_dist[1]>> ELSE None

---------------------------------------------------------------------------
(* The SQLite tables and statements.                                       *)

EmptyTables ==
    [stations |-> <<>>, trains |-> <<>>, train_routes |-> <<>>,
     train_stops |-> <<>>, mapping_warnings |-> <<>>, train_runs |-> <<>>]

Tables(db) ==
    [stations |-> db.stations, trains |-> db.trains, train_routes |-> db.train_routes,
     train_stops |-> db.train_stops, mapping_warnings |-> db.mapping_warnings,
     train_runs |-> db.train_runs]

(* sqlite3.connect: the committed tables, and no row inserted yet.         *)
Open(tables) ==
    [stations |-> tables.stations, trains |-> tables.trains,
     train_routes |-> tables.train_routes, train_stops |-> tables.train_stops,
     mapping_warnings |-> tables.mapping_warnings, train_runs |-> tables.train_runs,
     last_insert_rowid |-> 0]

StationExists(db, code) == \E k \in 1..Len(db.stations) : db.stations[k].code = code
TrainIdExists(db, id) == id \in 1..Len(db.trains)
StopExists(db, train_id, seq) ==
    \E k \in 1..Len(db.train_stops) :
        db.train_stops[k].train_id = train_id /\ db.train_stops[k].stop_sequence = seq

(* INSERT OR IGNORE INTO stations: code is unique.                         *)
InsertOrIgnoreStation(db, station) ==
    IF StationExists(db, station.code) THEN db
    ELSE [db EXCEPT !.stations = Append(@, [code |-> station.code,
                                            latitude |-> station.latitude]),
                    !.last_insert_rowid = Len(db.stations) + 1]

(* INSERT OR IGNORE INTO trains: number is unique.                         *)
InsertOrIgnoreTrain(db, number) ==
    IF \E k \in 1..Len(db.trains) : db.trains[k].number = number THEN db
    ELSE [db EXCEPT !.trains = Append(@, [number |-> number]),
                    !.last_insert_rowid = Len(db.trains) + 1]

(* A lookup that answers with the first train whatever the number.         *)
FirstTrainId(db, number) == IF db.trains = <<>> THEN None ELSE Some(1)

(* SELECT id FROM trains WHERE number = ? ; fetchone().                    *)
SelectTrainId(db, number) ==
    LET ids == {k \in 1..Len(db.trains) : db.trains[k].number = number} IN
    IF ids = {} THEN None ELSE Some(Min(ids))

(* INSERT INTO train_routes (the caller has checked the foreign key).      *)
InsertRoute(db, train_id, coordinates) ==
    [db EXCEPT !.train_routes = Append(@, [train_id |-> train_id,
                                           coordinates_json |-> coordinates]),
               !.last_insert_rowid = Len(db.train_routes) + 1]

(* A mapper that marks the earlier warnings of the same coordinate as      *)
(* superseded before it inserts the new one.                               *)
SupersedeWarning(db, row) ==
    [db EXCEPT !.mapping_warnings =
                   Append([k \in 1..Len(@) |->
                              IF /\ @[k].train_number = row.train_number
                                 /\ @[k].coordinate_index = row.coordinate_index
                              THEN [@[k] EXCEPT !.warning_type = "SUPERSEDED"]
                              ELSE @[k]],
                          row),
               !.last_insert_rowid = Len(db.mapping_warnings) + 1]

(* A mapper that records no warning.                                       *)
NoWarning(db, row) == db

(* INSERT INTO mapping_warnings.                                           *)
InsertWarning(db, row) ==
    [db EXCEPT !.mapping_warnings = Append(@, row),
               !.last_insert_rowid = Len(db.mapping_warnings) + 1]

(* A draft statement that replaces the row on conflict.                    *)
InsertOrReplaceStop(db, train_id, station_code, seq) ==
    LET draft == [train_id |-> train_id, station_code |-> station_code,
                  stop_sequence |-> seq, arrival_time |-> None,
                  departure_time |-> None, day_offset |-> 0]
    IN  [db EXCEPT !.train_stops =
                       IF \E k \in 1..Len(@) : /\ @[k].train_id = train_id
                                               /\ @[k].stop_sequence = seq
                       THEN [k \in 1..Len(@) |->
                                IF @[k].train_id = train_id /\ @[k].stop_sequence = seq
                                THEN draft ELSE @[k]]
                       ELSE Append(@, draft),
                   !.last_insert_rowid = Len(db.train_stops) + 1]

(* INSERT OR IGNORE INTO train_stops (train_id, station_code,              *)
(* stop_sequence): (train_id, stop_sequence) is unique; day_offset takes   *)
(* its default 0 and the times are NULL.                                   *)
InsertOrIgnoreStop(db, train_id, station_code, seq) ==
    IF StopExists(db, train_id, seq) THEN db
    ELSE [db EXCEPT !.train_stops = Append(@,
                        [train_id |-> train_id, station_code |-> station_code,
                         stop_sequence |-> seq, arrival_time |-> None,
                         departure_time |-> None, day_offset |-> 0]),
                    !.last_insert_rowid = Len(db.train_stops) + 1]

(* A statement that keeps the existing row on conflict.                    *)
KeepStop(db, row) ==
    IF StopExists(db, row.train_id, row.stop_sequence) THEN db
    ELSE [db EXCEPT !.train_stops = Append(@, row),
                    !.last_insert_rowid = Len(db.train_stops) + 1]

(* A reconciler that, after writing a stop, deletes the stops of the same   *)
(* train that come later in the sequence.                                  *)
UpsertAndTruncate(db, row) ==
    LET kept == SelectSeq(db.train_stops,
                          LAMBDA r : ~(/\ r.train_id = row.train_id
                                       /\ r.stop_sequence >= row.stop_sequence))
    IN  [db EXCEPT !.train_stops = Append(kept, row),
                   !.last_insert_rowid = Len(kept) + 1]

(* INSERT INTO train_stops ... ON CONFLICT(train_id, stop_sequence) DO     *)
(* UPDATE SET station_code, arrival_time, departure_time, day_offset.      *)
UpsertStop(db, row) ==
    IF StopExists(db, row.train_id, row.stop_sequence)
    THEN LET k == CHOOSE k \in 1..Len(db.train_stops) :
                     /\ db.train_stops[k].train_id = row.train_id
                     /\ db.train_stops[k].stop_sequence = row.stop_sequence
         IN [db EXCEPT !.train_stops[k] = row]
    ELSE [db EXCEPT !.train_stops = Append(@, row),
                    !.last_insert_rowid = Len(db.train_stops) + 1]

(* A train_runs row; run_date is counted in days from today.               *)
Run(train_id, run_date, n) ==
    [train_id |-> train_id, run_date |-> run_date, total_seats |-> n, available_seats |-> n]

SampleCounter == 100        \* create_sample_train_runs: total_seats, available_seats

(* INSERT OR IGNORE INTO train_runs: (train_id, run_date) is unique.       *)
InsertOrIgnoreRun(db, train_id, run_date) ==
    IF \E k \in 1..Len(db.train_runs) :
           db.train_runs[k].train_id = train_id /\ db.train_runs[k].run_date = run_date
    THEN db
    ELSE [db EXCEPT !.train_runs = Append(@, Run(train_id, run_date, SampleCounter)),
                    !.last_insert_rowid = Len(db.train_runs) + 1]

---------------------------------------------------------------------------
(* RailwayDatabaseImporter.import_stations.                                *)

(* The Station built from a feature: lat is None without a geometry.       *)
StationOf(feature) == [code |-> feature.code, latitude |-> feature.coordinates]

RECURSIVE InsertStations(_, _, _)
InsertStations(db, features, i) ==
    IF i > Len(features) THEN db
    ELSE InsertStations(InsertOrIgnoreStation(db, StationOf(features[i])), features, i + 1)

(* stations_with_coords: <<code, lat>> of every feature that has a point.  *)
RECURSIVE StationsWithCoords(_)
StationsWithCoords(features) ==
    IF features = <<>> THEN <<>>
    ELSE LET station == StationOf(Head(features)) IN
         (IF station.latitude # None
          THEN << <<station.code, station.latitude[1]>> >> ELSE <<>>)
         \o StationsWithCoords(Tail(features))

---------------------------------------------------------------------------
(* RailwayDatabaseImporter.map_route_to_stations.                          *)

threshold_km == 15      \* the default mapping radius
large_distance_km == 5  \* beyond it a match is logged as LARGE_DISTANCE

(* A mapper that appends every station it finds.                           *)
AppendAlways(station_code, prev_station) == TRUE

(* "Only add if different from previous station".                          *)
IsNewStation(station_code, prev_station) == Some(station_code) # prev_station

(* A mapper that also warns at the limit itself.                           *)
AtLeastLarge(distance) == distance >= large_distance_km

(* "Log warning if distance is large but within threshold".                *)
IsLargeDistance(distance) == distance > large_distance_km

(* The loop over enumerate(coordinates); idx is 0-based.  The state of the *)
(* loop is st = [mapped_stations, prev_station, db, stats].                *)
MapCoordinate(st, index, train_number, idx, lat) ==
    LET result == find_nearest(index, lat, threshold_km) IN
    IF result # None
    THEN LET station_code == result[1]
             distance == result[2]
             fresh == IsNewStation(station_code, st.prev_station)
             st1 == IF fresh
                    THEN [st EXCEPT !.mapped_stations = Append(@, <<station_code, idx>>),
                                    !.prev_station = Some(station_code),
                                    !.stats.route_coords_mapped = @ + 1]
                    ELSE st
         IN IF IsLargeDistance(distance)
            THEN [st1 EXCEPT !.db = InsertWarning(@,
                     [train_number |-> train_number, coordinate_index |-> idx,
                      latitude |-> lat, nearest_station_code |-> Some(station_code),
                      distance_km |-> Some(distance), warning_type |-> "LARGE_DISTANCE"])]
            ELSE st1
    ELSE [st EXCEPT !.stats.route_coords_unmapped = @ + 1,
                    !.db = InsertWarning(@,
                     [train_number |-> train_number, coordinate_index |-> idx,
                      latitude |-> lat, nearest_station_code |-> None,
                      distance_km |-> None, warning_type |-> "NO_STATION_NEARBY"])]

RECURSIVE MapLoop(_, _, _, _, _)
MapLoop(st, index, train_number, coordinates, idx) ==
    IF idx >= Len(coordinates) THEN st
    ELSE MapLoop(MapCoordinate(st, index, train_number, idx, coordinates[idx + 1]),
                 index, train_number, coordinates, idx + 1)

(* Returns [mapped_stations, db, stats]; index is the Optional             *)
(* self.spatial_index.                                                      *)
map_route_to_stations(db, st_stats, index, train_number, coordinates) ==
    IF index = None
    THEN [mapped_stations |-> <<>>, prev_station |-> None, db |-> db, stats |-> st_stats]
    ELSE MapLoop([mapped_stations |-> <<>>, prev_station |-> None,
                  db |-> db, stats |-> st_stats],
                 index[1], train_number, coordinates, 0)

---------------------------------------------------------------------------
(* RailwayDatabaseImporter.import_trains.                                  *)

CommitEveryTrains == 1000
CommitEveryStops == 10000

(* "Get the train_id": cursor.lastrowid is the connection's last insert    *)
(* rowid, which an ignored INSERT OR IGNORE leaves as it was.              *)
GetTrainId(db, number) ==
    IF db.last_insert_rowid = 0 THEN SelectTrainId(db, number)
    ELSE Some(db.last_insert_rowid)

RECURSIVE InsertDraftStops(_, _, _, _)
InsertDraftStops(db, train_id, mapped_stations, seq) ==
    IF seq > Len(mapped_stations) THEN db
    ELSE InsertDraftStops(InsertOrIgnoreStop(db, train_id, mapped_stations[seq][1], seq),
                          train_id, mapped_stations, seq + 1)

(* "Insert route geometry" and "Map route to stations and create draft     *)
(* train stops" for a feature whose train_id is known, then the count and  *)
(* the commit every 1000 trains; m is what map_route_to_stations returned. *)
StoreDraft(s, feature, train_id, m) ==
    [db |-> InsertDraftStops(m.db, train_id, m.mapped_stations, 1),
     disk |-> s.disk,
     stats |-> [m.stats EXCEPT !.trains_imported = @ + 1],
     mapped |-> Append(s.mapped, [train_number |-> feature.number,
                                  train_id |-> train_id,
                                  coordinates |-> feature.coordinates,
                                  mapped_stations |-> m.mapped_stations]),
     error |-> FALSE]

CommitEvery1000(s) ==
    IF s.stats.trains_imported % CommitEveryTrains = 0
    THEN [s EXCEPT !.disk = Tables(s.db)] ELSE s

(* The body of the loop once the train row is inserted or found; db1 is    *)
(* the database after INSERT OR IGNORE INTO trains and got the train_id.   *)
ImportTrainRoute(s, index, feature, db1, got) ==
    IF got = None THEN [s EXCEPT !.db = db1]      \* continue
    ELSE IF feature.coordinates = <<>>
    THEN CommitEvery1000([s EXCEPT !.db = db1, !.stats.trains_imported = @ + 1])
    ELSE IF ~TrainIdExists(db1, got[1])
    THEN [s EXCEPT !.db = db1, !.error = TRUE]
    ELSE CommitEvery1000(
             StoreDraft(s, feature, got[1],
                        map_route_to_stations(InsertRoute(db1, got[1], feature.coordinates),
                                              s.stats, index, feature.number,
                                              feature.coordinates)))

ImportTrainId(s, index, feature, db1) ==
    ImportTrainRoute(s, index, feature, db1, GetTrainId(db1, feature.number))

(* One iteration of the loop over the features.  The state of the loop is  *)
(* s = [db, disk, stats, mapped, error]; error is set when a statement     *)
(* raises (sqlite3.IntegrityError: a foreign key fails).                   *)
ImportTrainFeature(s, index, feature) ==
    ImportTrainId(s, index, feature, InsertOrIgnoreTrain(s.db, feature.number))

RECURSIVE ImportTrainsLoop(_, _, _, _)
ImportTrainsLoop(s, index, features, i) ==
    IF i > Len(features) \/ s.error THEN s
    ELSE ImportTrainsLoop(ImportTrainFeature(s, index, features[i]), index, features, i + 1)

(* The whole of import_trains, final commit included.                      *)
import_trains(db, tables, st_stats, index, features) ==
    LET s == ImportTrainsLoop([db |-> db, disk |-> tables, stats |-> st_stats,
                               mapped |-> <<>>, error |-> FALSE], index, features, 1)
    IN  IF s.error THEN s ELSE [s EXCEPT !.disk = Tables(s.db)]

---------------------------------------------------------------------------
(* RailwayDatabaseImporter.import_schedules.                               *)

(* The keys of train_schedules (a defaultdict): the train numbers in the   *)
(* order of their first record.                                            *)
RECURSIVE TrainNumbersOf(_, _)
TrainNumbersOf(schedules, seen) ==
    IF schedules = <<>> THEN <<>>
    ELSE LET n == Head(schedules).train_number IN
         IF n \in seen THEN TrainNumbersOf(Tail(schedules), seen)
         ELSE <<n>> \o TrainNumbersOf(Tail(schedules), seen \cup {n})

StopsOf(schedules, train_number) ==
    SelectSeq(schedules, LAMBDA r : r.train_number = train_number)

(* The sort key: (day or 1, departure or '00:00:00').                      *)
DayOf(s) == IF s.day # None THEN s.day[1] ELSE 1
DepartureKey(s) == IF s.departure # None THEN s.departure[1] ELSE "00:00:00"
KeyLess(a, b) ==
    \/ DayOf(a) < DayOf(b)
    \/ DayOf(a) = DayOf(b) /\ StrLess(DepartureKey(a), DepartureKey(b))

(* A sort that places a record before the records of the same key.         *)
RECURSIVE InsertBeforeEqual(_, _)
InsertBeforeEqual(sorted, x) ==
    IF sorted = <<>> THEN <<x>>
    ELSE IF ~KeyLess(Head(sorted), x) THEN <<x>> \o sorted
    ELSE <<Head(sorted)>> \o InsertBeforeEqual(Tail(sorted), x)

(* sorted(stops, key=...): a stable sort.  Insert places x after every     *)
(* element whose key is not greater than its own.                          *)
RECURSIVE Insert(_, _)
Insert(sorted, x) ==
    IF sorted = <<>> THEN <<x>>
    ELSE IF KeyLess(x, Head(sorted)) THEN <<x>> \o sorted
    ELSE <<Head(sorted)>> \o Insert(Tail(sorted), x)

RECURSIVE SortStops(_, _)
SortStops(stops, n) ==
    IF n = 0 THEN <<>> ELSE Insert(SortStops(stops, n - 1), stops[n])

stops_sorted(stops) == SortStops(stops, Len(stops))

(* A time column: the literal 'None' is stored as NULL.                    *)
TimeValue(t) == IF t # Some("None") THEN t ELSE None

(* A reconciler that stores the day as given.                              *)
DayAsGiven(stop) == DayOf(stop)

(* "Convert to 0-based offset".                                            *)
DayOffset(stop) == DayOf(stop) - 1

StopRow(train_id, seq, stop) ==
    [train_id |-> train_id, station_code |-> stop.station_code, stop_sequence |-> seq,
     arrival_time |-> TimeValue(stop.arrival),
     departure_time |-> TimeValue(stop.departure),
     day_offset |-> DayOffset(stop)]

(* The loop over enumerate(stops_sorted, start=1).  The statement raises   *)
(* when station_code is no station (foreign keys are ON).                  *)
RECURSIVE UpsertStops(_, _, _, _)
UpsertStops(s, train_id, sorted, seq) ==
    IF seq > Len(sorted) \/ s.error THEN s
    ELSE IF ~StationExists(s.db, sorted[seq].station_code)
    THEN [s EXCEPT !.error = TRUE]
    ELSE UpsertStops([s EXCEPT !.db = UpsertStop(@, StopRow(train_id, seq, sorted[seq])),
                               !.stats.stops_imported = @ + 1],
                     train_id, sorted, seq + 1)

(* One iteration of the loop over train_schedules.items().                 *)
ImportTrainSchedule(s, train_number, stops) ==
    LET result == SelectTrainId(s.db, train_number) IN
    IF result = None THEN s       \* train not in database, skip
    ELSE LET s1 == UpsertStops(s, result[1], stops_sorted(stops), 1) IN
         IF s1.error THEN s1
         ELSE [s1 EXCEPT !.disk = IF s1.stats.stops_imported % CommitEveryStops = 0
                                   THEN Tables(s1.db) ELSE @]

RECURSIVE ImportSchedulesLoop(_, _, _, _)
ImportSchedulesLoop(s, schedules, numbers, i) ==
    IF i > Len(numbers) \/ s.error THEN s
    ELSE ImportSchedulesLoop(
             ImportTrainSchedule(s, numbers[i], StopsOf(schedules, numbers[i])),
             schedules, numbers, i + 1)

(* The whole of import_schedules, final commit included.                   *)
import_schedules(db, tables, st_stats, schedules) ==
    LET s == ImportSchedulesLoop([db |-> db, disk |-> tables, stats |-> st_stats,
                                  error |-> FALSE],
                                 schedules, TrainNumbersOf(schedules, {}), 1)
    IN  IF s.error THEN s ELSE [s EXCEPT !.disk = Tables(s.db)]

---------------------------------------------------------------------------
(* RailwayDatabaseImporter.create_sample_train_runs.                       *)

days_ahead == 30            \* run_import: create_sample_train_runs(days_ahead=30)

RECURSIVE CreateRunsOfTrain(_, _, _)
CreateRunsOfTrain(db, train_id, day_offset) ==
    IF day_offset >= days_ahead THEN db
    ELSE CreateRunsOfTrain(InsertOrIgnoreRun(db, train_id, day_offset),
                           train_id, day_offset + 1)

(* The loop over SELECT id, number FROM trains.                            *)
RECURSIVE CreateRuns(_, _)
CreateRuns(db, train_id) ==
    IF train_id > Len(db.trains) THEN db
    ELSE CreateRuns(CreateRunsOfTrain(db, train_id, 0), train_id + 1)

create_sample_train_runs(db) == CreateRuns(db, 1)

---------------------------------------------------------------------------
(* The input files the model draws.                                        *)

(* Stations A and B lie 20 km apart; C has no geometry.                    *)
StationCatalog ==
    << [code |-> "A", coordinates |-> Some(0)],
       [code |-> "B", coordinates |-> Some(20)],
       [code |-> "C", coordinates |-> None] >>

StationFiles == {SubSeq(StationCatalog, 1, n) : n \in 0..Len(StationCatalog)}

(* Route points: at A; 10 km from both A and B; 5 km and 15 km from B;     *)
(* 20 km from B, the nearest station.                                      *)
MapPoints == {0, 10, 25, 35, 40}

SeqsUpTo(S, n) == UNION {[1..k -> S] : k \in 0..n}

(* The route A, B, A, B, ... of n points.                                  *)
ZigZag(n) == [i \in 1..n |-> IF i % 2 = 1 THEN 0 ELSE 20]

TrainNumbers == {"T1", "T2"}

TrainFeatures(routes) == [number : TrainNumbers, coordinates : routes]

(* Schedule records: of train T1 at a known station, of a train that is    *)
(* not in trains.json, and of T1 at a station that is not in stations.json. *)
Days == {None, Some(0), Some(1), Some(2)}
Times == {None, Some("None"), Some("08:00:00")}

ScheduleRecords ==
    {r \in [train_number : {"T1"}, station_code : {"B"}, day : Days,
            arrival : Times, departure : Times] : r.arrival = r.departure}
    \cup {[train_number |-> "T9", station_code |-> "A", day |-> Some(1),
           arrival |-> None, departure |-> Some("08:00:00")],
          [train_number |-> "T1", station_code |-> "Z", day |-> Some(1),
           arrival |-> None, departure |-> Some("08:00:00")]}

PlainRecords ==
    [train_number : TrainNumbers, station_code : {"A"}, day : {None},
     arrival : {None}, departure : {None}]

(* Several trains with short routes and plain schedules.                   *)
InputTrains ==
    /\ stations_json = StationCatalog
    /\ HAS_SKLEARN = FALSE /\ tree_order = "first"
    /\ trains_json \in SeqsUpTo(TrainFeatures({ZigZag(n) : n \in 0..MaxCoords}), MaxTrains)
    /\ schedules_json \in SeqsUpTo(PlainRecords, MaxRecords)

(* One train, without a route or with a route that has more stops than    *)
(* the schedule has records, and any schedule records.                     *)
InputSchedules ==
    /\ stations_json = StationCatalog
    /\ HAS_SKLEARN = FALSE /\ tree_order = "first"
    /\ \E n \in {0, MaxCoords + 1} :
           trains_json = << [number |-> "T1", coordinates |-> ZigZag(n)] >>
    /\ schedules_json \in SeqsUpTo(ScheduleRecords, MaxRecords)

(* One train with any route, any station file, either nearest-neighbour    *)
(* implementation.                                                         *)
InputRoutes ==
    /\ stations_json \in StationFiles
    /\ \/ HAS_SKLEARN = FALSE /\ tree_order = "first"
       \/ HAS_SKLEARN = TRUE /\ tree_order \in {"first", "last"}
    /\ \E route \in SeqsUpTo(MapPoints, MapMaxCoords) :
           trains_json = << [number |-> "T1", coordinates |-> route] >>
    /\ schedules_json = <<>>

(* Two trains without routes; records of both at station A, and a record   *)
(* of T1 at a station that is not in stations.json.                        *)
FailureRecords ==
    PlainRecords
    \cup {[train_number |-> "T1", station_code |-> "Z", day |-> Some(1),
           arrival |-> None, departure |-> Some("08:00:00")]}

InputFailures ==
    /\ stations_json = StationCatalog
    /\ HAS_SKLEARN = FALSE /\ tree_order = "first"
    /\ trains_json = << [number |-> "T1", coordinates |-> <<>>],
                        [number |-> "T2", coordinates |-> <<>>] >>
    /\ schedules_json \in SeqsUpTo(FailureRecords, MaxRecords)

(* Three stations with coordinates and the route: at A, at A again, at B,  *)
(* 10 km from C, and 50 km from C, the nearest station.                    *)
ScenarioStations ==
    << [code |-> "A", coordinates |-> Some(0)],
       [code |-> "B", coordinates |-> Some(20)],
       [code |-> "C", coordinates |-> Some(50)] >>

ScenarioRoute == <<0, 0, 20, 60, 100>>

InputScenario ==
    /\ stations_json = ScenarioStations
    /\ \/ HAS_SKLEARN = FALSE /\ tree_order = "first"
       \/ HAS_SKLEARN = TRUE /\ tree_order \in {"first", "last"}
    /\ trains_json = << [number |-> "T1", coordinates |-> ScenarioRoute] >>
    /\ schedules_json = <<>>

(* One train without a route; records at A and B with the day absent or 1  *)
(* and the departure absent or 08:00:00, so that records tie in the sort   *)
(* key and differ in the row they give.                                    *)
TieRecords ==
    [train_number : {"T1"}, station_code : {"A", "B"}, day : {None, Some(1)},
     arrival : {None}, departure : {None, Some("08:00:00")}]

InputTies ==
    /\ stations_json = StationCatalog
    /\ HAS_SKLEARN = FALSE /\ tree_order = "first"
    /\ trains_json = << [number |-> "T1", coordinates |-> <<>>] >>
    /\ schedules_json \in SeqsUpTo(TieRecords, MaxRecords)

(* Three trains: two with a route of one point at A, then one without a    *)
(* route; no schedule records.                                             *)
InputThreeTrains ==
    /\ stations_json = StationCatalog
    /\ HAS_SKLEARN = FALSE /\ tree_order = "first"
    /\ trains_json = << [number |-> "T1", coordinates |-> ZigZag(1)],
                        [number |-> "T2", coordinates |-> ZigZag(1)],
                        [number |-> "T3", coordinates |-> <<>>] >>
    /\ schedules_json = <<>>

ZeroStats ==
    [trains_imported |-> 0, stops_imported |-> 0,
     route_coords_mapped |-> 0, route_coords_unmapped |-> 0]

ImportInit ==
    /\ \/ InputTrains \/ InputSchedules \/ InputRoutes \/ InputFailures
       \/ InputScenario \/ InputThreeTrains \/ InputTies
    /\ pc = "idle"
    /\ runs = 0
    /\ disk = EmptyTables
    /\ conn = Open(EmptyTables)
    /\ spatial_index = None
    /\ stats = ZeroStats
    /\ mapped = <<>>
    /\ exits = <<>>
    /\ after_run = <<>>

---------------------------------------------------------------------------
(* RailwayDatabaseImporter.run_import, one action per step.                *)

inputs == <<stations_json, trains_json, schedules_json, HAS_SKLEARN, tree_order>>

(* create_schema executes database/schema.sql and commits.  The script is  *)
(* not among the sources; by the specification a re-run is safe and the    *)
(* persisted rows are kept, so it creates the tables that are missing and  *)
(* leaves the existing ones, rows included, as they are.                   *)
create_schema(db) == db

(* A new process: __init__, connect(), create_schema().                    *)
Connect ==
    /\ pc = "idle"
    /\ runs < MaxPipelineRuns
    /\ pc' = "connected"
    /\ conn' = create_schema(Open(disk))
    /\ spatial_index' = None
    /\ stats' = ZeroStats
    /\ mapped' = <<>>
    /\ UNCHANGED <<inputs, runs, disk, exits, after_run>>
    /\ UNCHANGED seatVars

ImportStations ==
    /\ pc = "connected"
    /\ LET db == InsertStations(conn, stations_json, 1)
           swc == StationsWithCoords(stations_json)
       IN  /\ conn' = db
           /\ disk' = Tables(db)
           /\ stats' = stats
           /\ spatial_index' = Some(SpatialIndex(swc))
    /\ pc' = "stations"
    /\ UNCHANGED <<inputs, runs, mapped, exits, after_run>>
    /\ UNCHANGED seatVars

ImportTrains ==
    /\ pc = "stations"
    /\ LET s == import_trains(conn, disk, stats, spatial_index, trains_json)
       IN  /\ conn' = s.db
           /\ disk' = s.disk
           /\ stats' = s.stats
           /\ mapped' = s.mapped
           /\ pc' = IF s.error THEN "failed" ELSE "trains"
    /\ UNCHANGED <<inputs, runs, spatial_index, exits, after_run>>
    /\ UNCHANGED seatVars

ImportSchedules ==
    /\ pc = "trains"
    /\ LET s == import_schedules(conn, disk, stats, schedules_json)
       IN  /\ conn' = s.db
           /\ disk' = s.disk
           /\ stats' = s.stats
           /\ pc' = IF s.error THEN "failed" ELSE "schedules"
    /\ UNCHANGED <<inputs, runs, spatial_index, mapped, exits, after_run>>
    /\ UNCHANGED seatVars

CreateSampleTrainRuns ==
    /\ pc = "schedules"
    /\ conn' = create_sample_train_runs(conn)
    /\ disk' = Tables(conn')
    /\ pc' = "runs"
    /\ UNCHANGED <<inputs, runs, spatial_index, stats, mapped, exits, after_run>>
    /\ UNCHANGED seatVars

(* The end of run_import: close() drops what was not committed; the        *)
(* process exits with 1 after an exception and 0 otherwise.                *)
Close ==
    /\ pc \in {"runs", "failed"}
    /\ pc' = "idle"
    /\ runs' = runs + 1
    /\ conn' = Open(disk)
    /\ exits' = Append(exits, IF pc = "failed" THEN 1 ELSE 0)
    /\ after_run' = Append(after_run, disk)
    /\ UNCHANGED <<inputs, disk, spatial_index, stats, mapped>>
    /\ UNCHANGED seatVars

ImportNext ==
    \/ Connect
    \/ ImportStations
    \/ ImportTrains
    \/ ImportSchedules
    \/ CreateSampleTrainRuns
    \/ Close

---------------------------------------------------------------------------
(* services/seatgen.py : the tables of the seat generator.                 *)

DEFAULT_SEATS_PER_COACH ==
    ("SL" :> 72) @@ ("3A" :> 64) @@ ("2A" :> 48) @@ ("1A" :> 24) @@
    ("CC" :> 78) @@ ("2S" :> 108) @@ ("GEN" :> 90)

COACH_PREFIX ==
    ("SL" :> "S") @@ ("3A" :> "A") @@ ("2A" :> "B") @@ ("1A" :> "H") @@
    ("CC" :> "C") @@ ("2S" :> "D") @@ ("GEN" :> "G")

BASE_PRICE_PER_KM ==
    ("1A" :> 500) @@ ("2A" :> 350) @@ ("3A" :> 250) @@ ("SL" :> 100) @@
    ("CC" :> 120) @@ ("2S" :> 50) @@ ("GEN" :> 30)

(* dict.get(key, default).                                                 *)
Get(dict, key, default) == IF key \in DOMAIN dict THEN dict[key] ELSE default

default_seats == 72         \* DEFAULT_SEATS_PER_COACH.get(class_code, 72)
default_km == 500           \* the distance used when the price falls back
default_rate == 100         \* BASE_PRICE_PER_KM.get(class_code, 100)

---------------------------------------------------------------------------
(* parse_classes_config.  The text of trains.classes is                    *)
(*   [kind |-> "empty"]    NULL or ''                                      *)
(*   [kind |-> "invalid"]  not JSON                                        *)
(*   [kind |-> "scalar"]   JSON that is no object (a number, a list)       *)
(*   [kind |-> "object", items |-> <<[class_code, value], ...>>]           *)
(* and a value is [t |-> "int", v |-> n], [t |-> "dict", coaches |->       *)
(* Optional, seats_per_coach |-> Optional] or [t |-> "other"].             *)
(* The result is [raised, config]: config is the normalized dict as the    *)
(* sequence of its items, in insertion order.                              *)

DefaultConfig == << [class_code |-> "SL", coaches |-> 1, seats_per_coach |-> 72] >>

NormalizeItem(item) ==
    LET dflt == Get(DEFAULT_SEATS_PER_COACH, item.class_code, default_seats) IN
    IF item.value.t = "int"
    THEN << [class_code |-> item.class_code, coaches |-> item.value.v,
             seats_per_coach |-> dflt] >>
    ELSE IF item.value.t = "dict"
    THEN << [class_code |-> item.class_code,
             coaches |-> IF item.value.coaches # None THEN item.value.coaches[1] ELSE 1,
             seats_per_coach |-> IF item.value.seats_per_coach # None
                                 THEN item.value.seats_per_coach[1] ELSE dflt] >>
    ELSE <<>>

RECURSIVE Normalize(_)
Normalize(items) ==
    IF items = <<>> THEN <<>> ELSE NormalizeItem(Head(items)) \o Normalize(Tail(items))

parse_classes_config(classes_json) ==
    IF classes_json.kind = "empty" THEN [raised |-> FALSE, config |-> DefaultConfig]
    ELSE IF classes_json.kind = "invalid" THEN [raised |-> FALSE, config |-> DefaultConfig]
    ELSE IF classes_json.kind = "scalar" THEN [raised |-> TRUE, config |-> <<>>]
    ELSE LET normalized == Normalize(classes_json.items) IN
         [raised |-> FALSE,
          config |-> IF normalized # <<>> THEN normalized ELSE DefaultConfig]

---------------------------------------------------------------------------
(* generate_seat_rows.  A str is the sequence of its characters.           *)

DigitChars == <<"0", "1", "2", "3", "4", "5", "6", "7", "8", "9">>

(* str(n) for n >= 0.                                                      *)
RECURSIVE Decimal(_)
Decimal(n) ==
    IF n < 10 THEN <<DigitChars[n + 1]>>
    ELSE Decimal(n \div 10) \o <<DigitChars[(n % 10) + 1]>>

(* f"{coach_prefix}{coach_num}" and f"{coach_name}-{seat_num}"             *)
CoachName(coach_prefix, coach_num) == <<coach_prefix>> \o Decimal(coach_num)
SeatNumber(coach_name, seat_num) == coach_name \o <<"-">> \o Decimal(seat_num)

(* "Calculate base price".                                                 *)
Price(class_code, distance_km) ==
    IF distance_km # None /\ distance_km[1] # 0 /\ class_code \in DOMAIN BASE_PRICE_PER_KM
    THEN distance_km[1] * BASE_PRICE_PER_KM[class_code]
    ELSE default_km * Get(BASE_PRICE_PER_KM, class_code, default_rate)

(* The local berth_type the loop computes for a seat.                      *)
BerthType(class_code, seat_num) ==
    IF class_code \in {"SL", "3A"}
    THEN (IF seat_num % 8 \in {1, 4} THEN Some("LB")
          ELSE IF seat_num % 8 \in {2, 5} THEN Some("MB")
          ELSE IF seat_num % 8 \in {3, 6} THEN Some("UB")
          ELSE IF seat_num % 8 = 7 THEN Some("SL")
          ELSE Some("SU"))
    ELSE IF class_code = "2A"
    THEN (IF seat_num % 6 \in {1, 3, 5} THEN Some("LB") ELSE Some("UB"))
    ELSE IF class_code = "1A"
    THEN (IF seat_num % 4 \in {1, 3} THEN Some("LB") ELSE Some("UB"))
    ELSE None

(* The dict appended for one seat: berth_type is computed and not kept.    *)
SeatRow(train_run_id, class_code, coach_name, seat_num, price) ==
    [train_run_id |-> train_run_id,
     seat_number |-> SeatNumber(coach_name, seat_num),
     coach_number |-> coach_name,
     seat_class |-> class_code,
     status |-> "AVAILABLE",
     price_cents |-> price]

CoachRows(train_run_id, class_code, coach_name, seats_per_coach, price) ==
    [seat_num \in 1..seats_per_coach |->
        SeatRow(train_run_id, class_code, coach_name, seat_num, price)]

RECURSIVE CoachesRows(_, _, _, _, _, _)
CoachesRows(train_run_id, class_code, coach_num, num_coaches, seats_per_coach, price) ==
    IF coach_num > num_coaches THEN <<>>
    ELSE CoachRows(train_run_id, class_code,
                   CoachName(Get(COACH_PREFIX, class_code, "X"), coach_num),
                   seats_per_coach, price)
         \o CoachesRows(train_run_id, class_code, coach_num + 1, num_coaches,
                        seats_per_coach, price)

generate_seat_rows(train_run_id, class_code, num_coaches, seats_per_coach, distance_km) ==
    CoachesRows(train_run_id, class_code, 1, num_coaches, seats_per_coach,
                Price(class_code, distance_km))

(* all_seats: the rows of every class of the configuration, in order.      *)
RECURSIVE AllSeats(_, _, _)
AllSeats(train_run_id, config, distance_km) ==
    IF config = <<>> THEN <<>>
    ELSE generate_seat_rows(train_run_id, Head(config).class_code, Head(config).coaches,
                            Head(config).seats_per_coach, distance_km)
         \o AllSeats(train_run_id, Tail(config), distance_km)

---------------------------------------------------------------------------
(* The seats table and the two generator entry points.                     *)

SeatCount(table, train_run_id) ==
    Cardinality({k \in 1..Len(table) : table[k].train_run_id = train_run_id})

SeatKeys(rows) == {<<rows[k].train_run_id, rows[k].seat_number>> : k \in 1..Len(rows)}

(* insert(Seat).values(batch): one statement; it raises IntegrityError,    *)
(* and inserts nothing, when (train_run_id, seat_number) would repeat.     *)
InsertRaises(table, batch) ==
    \/ Cardinality(SeatKeys(batch)) < Len(batch)
    \/ SeatKeys(batch) \cap SeatKeys(table) # {}

(* for i in range(0, len(all_seats), batch_size): insert all_seats[i:i+batch_size] *)
RECURSIVE InsertBatches(_, _, _, _)
InsertBatches(table, all_seats, i, batch_size) ==
    IF i >= Len(all_seats) THEN [seats |-> table, raised |-> FALSE]
    ELSE LET hi == IF i + batch_size < Len(all_seats) THEN i + batch_size ELSE Len(all_seats)
             batch == SubSeq(all_seats, i + 1, hi)
         IN  IF InsertRaises(table, batch) THEN [seats |-> table, raised |-> TRUE]
             ELSE InsertBatches(table \o batch, all_seats, i + batch_size, batch_size)

(* A window that reaches one day further.                                  *)
WindowPlusOne(run, days, train_ids) ==
    /\ run.run_date >= 0
    /\ run.run_date <= days
    /\ train_ids # <<>> => \E k \in 1..Len(train_ids) : train_ids[k] = run.train_id

(* The runs the batch query selects: dated today .. today + days - 1 (a    *)
(* run_date is its offset from today), of the given trains when the list   *)
(* is not empty, and without a seat.                                       *)
InWindow(run, days, train_ids) ==
    /\ run.run_date >= 0
    /\ run.run_date <= days - 1
    /\ train_ids # <<>> => \E k \in 1..Len(train_ids) : train_ids[k] = run.train_id

RunsToProcess(days, train_ids) ==
    {id \in 1..Len(train_runs) :
        /\ InWindow(train_runs[id], days, train_ids)
        /\ SeatCount(seats, id) = 0}

(* A loop that commits after every batch: when a batch raises, the batches *)
(* before it stay in the table.                                            *)
CommitEachBatch(s, id, batch_size) ==
    LET train == seat_trains[s.train_runs[id].train_id]
        parsed == parse_classes_config(train.classes)
        all_seats == AllSeats(id, parsed.config, train.distance_km)
        ins == InsertBatches(s.seats, all_seats, 0, batch_size)
        total_seats == Len(all_seats)
    IN  IF parsed.raised
        THEN [s EXCEPT !.raised = TRUE, !.reached = @ \cup {id}]
        ELSE IF ins.raised
        THEN [s EXCEPT !.seats = ins.seats, !.raised = TRUE, !.reached = @ \cup {id}]
        ELSE [s EXCEPT !.seats = ins.seats,
                       !.reached = @ \cup {id},
                       !.train_runs[id].total_seats = total_seats,
                       !.train_runs[id].available_seats = total_seats,
                       !.created[id] = total_seats]

(* One iteration of the loop of generate_seats_for_runs.  The state of the *)
(* loop is s = [seats, train_runs, created, reached, raised]: seats and    *)
(* train_runs are as of the last commit, reached are the runs the loop has *)
(* come to.                                                                *)
ProcessRun(s, id, batch_size) ==
    LET train == seat_trains[s.train_runs[id].train_id]
        parsed == parse_classes_config(train.classes)
        all_seats == AllSeats(id, parsed.config, train.distance_km)
        ins == InsertBatches(s.seats, all_seats, 0, batch_size)
        total_seats == Len(all_seats)
    IN  IF parsed.raised \/ ins.raised
        THEN [s EXCEPT !.raised = TRUE, !.reached = @ \cup {id}]
        ELSE [s EXCEPT !.seats = ins.seats,
                       !.reached = @ \cup {id},
                       !.train_runs[id].total_seats = total_seats,
                       !.train_runs[id].available_seats = total_seats,
                       !.created[id] = total_seats]

(* A batch that is one transaction: a failure undoes the runs before it.   *)
RECURSIVE AtomicLoop(_, _, _, _)
AtomicLoop(s, order, k, batch_size) ==
    IF k > Len(order) \/ s.raised THEN s
    ELSE AtomicLoop(ProcessRun(s, order[k], batch_size), order, k + 1, batch_size)

AtomicRuns(s, order, k, batch_size) ==
    LET r == AtomicLoop(s, order, k, batch_size) IN
    IF r.raised THEN [s EXCEPT !.raised = TRUE, !.reached = r.reached] ELSE r

RECURSIVE ProcessRuns(_, _, _, _)
ProcessRuns(s, order, k, batch_size) ==
    IF k > Len(order) \/ s.raised THEN s
    ELSE ProcessRuns(ProcessRun(s, order[k], batch_size), order, k + 1, batch_size)

Orders(S) == {o \in [1..Cardinality(S) -> S] : \A i, j \in 1..Cardinality(S) : o[i] = o[j] => i = j}

NoneCreated == [id \in 1..Len(train_runs) |-> 0]

DefaultBatchSize == 500

BatchSizes == {1, DefaultBatchSize}

(* generate_seats_for_runs(session, days, batch_size, train_ids); the      *)
(* query returns the selected runs in an order the code does not fix.      *)
GenerateSeatsForRuns(days, batch_size, train_ids) ==
    \E order \in Orders(RunsToProcess(days, train_ids)) :
        LET s == ProcessRuns([seats |-> seats, train_runs |-> train_runs,
                              created |-> NoneCreated, reached |-> {},
                              raised |-> FALSE],
                             order, 1, batch_size)
            skipped == {id \in 1..Len(train_runs) :
                           /\ InWindow(train_runs[id], days, train_ids)
                           /\ SeatCount(seats, id) > 0}
            covered == skipped \cup s.reached
        IN  /\ seats' = s.seats
            /\ train_runs' = s.train_runs
            /\ invoked' = invoked \cup covered
            /\ last_call' = [op |-> "batch", raised |-> s.raised,
                             returned |-> SeqSum(s.created), created |-> s.created,
                             covered |-> covered]
            /\ UNCHANGED <<seat_trains, sessions, importVars>>

(* seed_seats(database_url, days, train_ids, dry_run, batch_size): the     *)
(* script opens a session, calls generate_seats_for_runs and, in a dry     *)
(* run, calls session.rollback() once that has returned.  The rollback     *)
(* discards what the session has not committed; the loop state s holds     *)
(* the tables as of the last commit, which generate_seats_for_runs issues  *)
(* at the end of every run's iteration.  An exception leaves the script    *)
(* before the rollback, and closing the session discards the same.         *)
SeedSeats(days, train_ids, dry_run, batch_size) ==
    \E order \in Orders(RunsToProcess(days, train_ids)) :
        LET s == ProcessRuns([seats |-> seats, train_runs |-> train_runs,
                              created |-> NoneCreated, reached |-> {},
                              raised |-> FALSE],
                             order, 1, batch_size)
            skipped == {id \in 1..Len(train_runs) :
                           /\ InWindow(train_runs[id], days, train_ids)
                           /\ SeatCount(seats, id) > 0}
            covered == skipped \cup s.reached
        IN  /\ seats' = s.seats
            /\ train_runs' = s.train_runs
            /\ invoked' = invoked \cup covered
            /\ last_call' = [op |-> IF dry_run THEN "seed_dry_run" ELSE "seed",
                             raised |-> s.raised,
                             returned |-> SeqSum(s.created), created |-> s.created,
                             covered |-> covered]
            /\ UNCHANGED <<seat_trains, sessions, importVars>>

(* generate_seats_for_train_run(session, train_run_id).                    *)
GenerateSeatsForTrainRun(train_run_id) ==
    LET existing_count == SeatCount(seats, train_run_id)
        found == train_run_id \in 1..Len(train_runs)
        covered == IF found THEN {train_run_id} ELSE {}
        report(raised, n, table, runs_table) ==
            /\ seats' = table
            /\ train_runs' = runs_table
            /\ invoked' = invoked \cup covered
            /\ last_call' = [op |-> "single", raised |-> raised, returned |-> n,
                             created |-> [id \in 1..Len(train_runs) |->
                                             IF id = train_run_id THEN n ELSE 0],
                             covered |-> covered]
    IN  /\ IF existing_count > 0 THEN report(FALSE, 0, seats, train_runs)
           ELSE IF ~found THEN report(FALSE, 0, seats, train_runs)
           ELSE LET train == seat_trains[train_runs[train_run_id].train_id]
                    parsed == parse_classes_config(train.classes)
                    all_seats == AllSeats(train_run_id, parsed.config, train.distance_km)
                IN  IF parsed.raised THEN report(TRUE, 0, seats, train_runs)
                    ELSE IF all_seats = <<>> THEN report(FALSE, 0, seats, train_runs)
                    ELSE IF InsertRaises(seats, all_seats)
                    THEN report(TRUE, 0, seats, train_runs)
                    ELSE report(FALSE, Len(all_seats), seats \o all_seats,
                                [train_runs EXCEPT
                                    ![train_run_id].total_seats = Len(all_seats),
                                    ![train_run_id].available_seats = Len(all_seats)])
        /\ UNCHANGED <<seat_trains, sessions, importVars>>

---------------------------------------------------------------------------
(* The trains and runs the seat generator is given.                        *)

ClassOrder == <<"SL", "EC", "FC">>          \* EC and FC are in none of the tables

DictValues ==
    [t : {"dict"}, coaches : {Some(c) : c \in 0..MaxCoaches},
     seats_per_coach : {Some(n) : n \in 1..MaxSeatsPerCoach}]

RECURSIVE ItemsOf(_, _)
ItemsOf(values, k) ==
    IF k > Len(ClassOrder) THEN <<>>
    ELSE (IF values[k] = None THEN <<>>
          ELSE << [class_code |-> ClassOrder[k], value |-> values[k][1]] >>)
         \o ItemsOf(values, k + 1)

(* {"SL": {"coaches": c, "seats_per_coach": n}, ...}: one to MaxClasses    *)
(* of the classes, written in the order of ClassOrder.                     *)
DetailedTexts ==
    {[kind |-> "object", items |-> ItemsOf(values, 1)] :
        values \in {v \in [1..Len(ClassOrder) -> {None} \cup {Some(d) : d \in DictValues}] :
                       Cardinality({k \in 1..Len(ClassOrder) : v[k] # None}) \in 1..MaxClasses}}

(* NULL, 'SL,3A', '5', {"SL": 0}, {"SL": 1}, {"EC": 1}, {"SL": {}},        *)
(* {"SL": "x"}                                                             *)
OtherTexts ==
    {[kind |-> "empty"], [kind |-> "invalid"], [kind |-> "scalar"]} \cup
    {[kind |-> "object", items |-> << [class_code |-> c, value |-> v] >>] :
        c \in {"SL"},
        v \in {[t |-> "int", v |-> 0], [t |-> "int", v |-> 1],
               [t |-> "dict", coaches |-> None, seats_per_coach |-> None],
               [t |-> "other"]}} \cup
    {[kind |-> "object", items |-> << [class_code |-> "EC", value |-> [t |-> "int", v |-> 1]] >>]}

Distances == {None, Some(300)}

DefaultCounter == 0         \* TrainRun.total_seats, available_seats: default=0

(* One train of any configuration, running today and tomorrow.             *)
SeatInputOneTrain ==
    /\ \E classes \in DetailedTexts \cup OtherTexts, distance_km \in Distances :
           seat_trains = << [classes |-> classes, distance_km |-> distance_km] >>
    /\ \E n \in {DefaultCounter, SampleCounter} :
           train_runs = << Run(1, 0, n), Run(1, 1, n) >>

(* Two trains running today.                                               *)
TwoTrainTexts ==
    {[kind |-> "scalar"],
     [kind |-> "object", items |->
        << [class_code |-> "SL", value |-> [t |-> "dict", coaches |-> Some(1),
                                            seats_per_coach |-> Some(1)]] >>],
     [kind |-> "object", items |->
        << [class_code |-> "EC", value |-> [t |-> "dict", coaches |-> Some(1),
                                            seats_per_coach |-> Some(1)]],
           [class_code |-> "FC", value |-> [t |-> "dict", coaches |-> Some(1),
                                            seats_per_coach |-> Some(1)]] >>]}

SeatInputTwoTrains ==
    /\ \E c1, c2 \in TwoTrainTexts :
           seat_trains = << [classes |-> c1, distance_km |-> Some(300)],
                            [classes |-> c2, distance_km |-> Some(300)] >>
    /\ train_runs = << Run(1, 0, SampleCounter), Run(2, 0, SampleCounter) >>

(* The configurations of TwoTrainTexts and {"SL": 0}.                      *)
BatchTexts ==
    TwoTrainTexts \cup
    {[kind |-> "object", items |->
        << [class_code |-> "SL", value |-> [t |-> "int", v |-> 0]] >>]}

(* {"SL": {"coaches": 1, "seats_per_coach": 1}}                            *)
OneSeatText ==
    [kind |-> "object", items |->
        << [class_code |-> "SL", value |-> [t |-> "dict", coaches |-> Some(1),
                                            seats_per_coach |-> Some(1)]] >>]

(* Three trains; the third runs tomorrow.                                  *)
SeatInputThreeTrains ==
    /\ \E c1, c2 \in BatchTexts, c3 \in {OneSeatText} :
           seat_trains = << [classes |-> c1, distance_km |-> Some(300)],
                            [classes |-> c2, distance_km |-> Some(300)],
                            [classes |-> c3, distance_km |-> Some(300)] >>
    /\ train_runs = << Run(1, 0, SampleCounter), Run(2, 0, SampleCounter),
                       Run(3, 1, SampleCounter) >>

(* The concurrent invocations of generate_seats_for_train_run, none yet     *)
(* started.                                                                *)
Invocations == {1, 2}

NewSession ==
    [pos |-> "start", train_run_id |-> 0, all_seats |-> <<>>, returned |-> 0,
     raced |-> FALSE]

NoSessions == [p \in Invocations |-> NewSession]

NoCall == [op |-> "none", raised |-> FALSE, returned |-> 0,
           created |-> <<>>, covered |-> {}]

SeatInit ==
    /\ SeatInputOneTrain \/ SeatInputTwoTrains
    /\ seats = <<>>
    /\ invoked = {}
    /\ last_call = NoCall
    /\ sessions = NoSessions

SeatNext ==
    \/ \E train_run_id \in 1..(Len(train_runs) + 1) : GenerateSeatsForTrainRun(train_run_id)
    \/ \E days \in 1..MaxDays, batch_size \in BatchSizes,
          train_ids \in {<<>>} \cup {<<t>> : t \in 1..Len(seat_trains)} :
           GenerateSeatsForRuns(days, batch_size, train_ids)
    \/ \E days \in 1..MaxDays, dry_run \in BOOLEAN :
           SeedSeats(days, <<>>, dry_run, DefaultBatchSize)

---------------------------------------------------------------------------
(* Two invocations of generate_seats_for_train_run, each with a session of *)
(* its own, against the same database.  An invocation suspends at every    *)
(* await; seats and train_runs are what is committed, and the rows a       *)
(* session has inserted are its own until it commits.                      *)

(* The rows other sessions have inserted and not committed.                *)
Uncommitted(p) ==
    {q \in Invocations \ {p} : sessions[q].pos = "inserted"}

(* Lines 300-337: the count of the run's seats, the load of the run and    *)
(* its train, parse_classes_config and generate_seat_rows.  With no seat   *)
(* to insert ("if all_seats:") the invocation returns 0 without a commit.  *)
CheckSeats(p, train_run_id) ==
    /\ sessions[p].pos = "start"
    /\ LET existing_count == SeatCount(seats, train_run_id)
           found == train_run_id \in 1..Len(train_runs)
           finish(pos, all_seats) ==
               sessions' = [sessions EXCEPT ![p].pos = pos,
                                            ![p].train_run_id = train_run_id,
                                            ![p].all_seats = all_seats]
       IN  IF existing_count > 0 \/ ~found THEN finish("returned", <<>>)
           ELSE LET train == seat_trains[train_runs[train_run_id].train_id]
                    parsed == parse_classes_config(train.classes)
                    all_seats == AllSeats(train_run_id, parsed.config, train.distance_km)
                IN  IF parsed.raised THEN finish("raised", <<>>)
                    ELSE IF all_seats = <<>> THEN finish("returned", <<>>)
                    ELSE finish("generated", all_seats)
    /\ UNCHANGED <<seat_trains, train_runs, seats, invoked, last_call, importVars>>

(* Line 341, insert(Seat).values(all_seats), and the counters set on the   *)
(* loaded run (lines 344-345).  The statement raises IntegrityError when a *)
(* seat number repeats in the rows or in the committed table.  While       *)
(* another session holds uncommitted rows the outcome is the database's:   *)
(* the statement waits (no step), fails because the database is locked,   *)
(* or, when the other session's rows are of other seats, goes through.     *)
InsertSeats(p) ==
    /\ sessions[p].pos = "generated"
    /\ LET all_seats == sessions[p].all_seats
           first == \A q \in Invocations \ {p} :
                        /\ sessions[q].pos = "generated"
                        /\ sessions[q].train_run_id = sessions[p].train_run_id
           raise == sessions' = [sessions EXCEPT ![p].pos = "raised", ![p].raced = first]
           insert == sessions' = [sessions EXCEPT ![p].pos = "inserted", ![p].raced = first]
       IN  IF InsertRaises(seats, all_seats) THEN raise
           ELSE IF Uncommitted(p) = {} THEN insert
           ELSE \/ raise
                \/ /\ \A q \in Uncommitted(p) :
                          SeatKeys(sessions[q].all_seats) \cap SeatKeys(all_seats) = {}
                   /\ insert
    /\ UNCHANGED <<seat_trains, train_runs, seats, invoked, last_call, importVars>>

(* Line 347, session.commit(): the rows and the counters are committed.    *)
CommitSeats(p) ==
    /\ sessions[p].pos = "inserted"
    /\ LET all_seats == sessions[p].all_seats
           id == sessions[p].train_run_id
       IN  /\ seats' = seats \o all_seats
           /\ train_runs' = [train_runs EXCEPT ![id].total_seats = Len(all_seats),
                                                ![id].available_seats = Len(all_seats)]
           /\ sessions' = [sessions EXCEPT ![p].pos = "returned",
                                            ![p].returned = Len(all_seats)]
    /\ UNCHANGED <<seat_trains, invoked, last_call, importVars>>

RaceNext ==
    \/ \E p \in Invocations, train_run_id \in 1..(Len(train_runs) + 1) :
           CheckSeats(p, train_run_id)
    \/ \E p \in Invocations : InsertSeats(p)
    \/ \E p \in Invocations : CommitSeats(p)

---------------------------------------------------------------------------
(* The specifications.                                                     *)

(* The import pipeline; the seat tables are empty and stay so.             *)
Init ==
    /\ ImportInit
    /\ seat_trains = <<>> /\ train_runs = <<>> /\ seats = <<>>
    /\ invoked = {} /\ last_call = NoCall
    /\ sessions = NoSessions

Next == ImportNext

Spec == Init /\ [][Next]_vars

(* The seat generator; the import pipeline is not run.                     *)
SeatSpecInit ==
    /\ SeatInit
    /\ stations_json = <<>> /\ trains_json = <<>> /\ schedules_json = <<>>
    /\ HAS_SKLEARN = FALSE /\ tree_order = "first"
    /\ pc = "idle" /\ runs = 0
    /\ disk = EmptyTables /\ conn = Open(EmptyTables)
    /\ spatial_index = None /\ stats = ZeroStats
    /\ mapped = <<>> /\ exits = <<>> /\ after_run = <<>>

SeatSpec == SeatSpecInit /\ [][SeatNext]_vars

(* The seat generator over several trains with fixed configurations.       *)
BatchSpecInit ==
    /\ SeatInputTwoTrains \/ SeatInputThreeTrains
    /\ seats = <<>>
    /\ invoked = {}
    /\ last_call = NoCall
    /\ sessions = NoSessions
    /\ stations_json = <<>> /\ trains_json = <<>> /\ schedules_json = <<>>
    /\ HAS_SKLEARN = FALSE /\ tree_order = "first"
    /\ pc = "idle" /\ runs = 0
    /\ disk = EmptyTables /\ conn = Open(EmptyTables)
    /\ spatial_index = None /\ stats = ZeroStats
    /\ mapped = <<>> /\ exits = <<>> /\ after_run = <<>>

BatchSpec == BatchSpecInit /\ [][SeatNext]_vars

(* Two concurrent single-run invocations over two trains.                  *)
RaceSpecInit ==
    /\ SeatInputTwoTrains
    /\ seats = <<>>
    /\ invoked = {}
    /\ last_call = NoCall
    /\ sessions = NoSessions
    /\ stations_json = <<>> /\ trains_json = <<>> /\ schedules_json = <<>>
    /\ HAS_SKLEARN = FALSE /\ tree_order = "first"
    /\ pc = "idle" /\ runs = 0
    /\ disk = EmptyTables /\ conn = Open(EmptyTables)
    /\ spatial_index = None /\ stats = ZeroStats
    /\ mapped = <<>> /\ exits = <<>> /\ after_run = <<>>

RaceSpec == RaceSpecInit /\ [][RaceNext]_vars

---------------------------------------------------------------------------
(* Properties of the import pipeline (specification Spec).                 *)

StopsOfTrain(db, train_id) ==
    {k \in 1..Len(db.train_stops) : db.train_stops[k].train_id = train_id}

ScheduledNumbers == {schedules_json[i].train_number : i \in 1..Len(schedules_json)}

(* C1: the draft stop list map_route_to_stations returns never has the     *)
(* same station code at two adjacent positions, and its entries are in     *)
(* strictly increasing order of the coordinate index they were accepted    *)
(* at.                                                                     *)
C1_DraftDedupOrdered ==
    \A k \in 1..Len(mapped) :
        LET m == mapped[k].mapped_stations IN
        \A i \in 1..(Len(m) - 1) :
            /\ m[i][1] # m[i + 1][1]
            /\ m[i][2] < m[i + 1][2]

(* C1, its case: a route of three coordinates, each near a station, of     *)
(* which the mapper kept two (one repeated the station before it).         *)
C1_Witness ==
    /\ pc = "trains"
    /\ stats.route_coords_unmapped = 0
    /\ \E k \in 1..Len(mapped) :
           /\ Len(mapped[k].coordinates) = 3
           /\ Len(mapped[k].mapped_stations) = 2

(* C2: after import_schedules has reconciled a train that has N schedule   *)
(* records, the stop_sequence values stored for that train are exactly     *)
(* 1..N, whatever draft the route mapper had stored.                       *)
C2_SequencesExactlyN ==
    pc = "schedules" =>
        \A number \in ScheduledNumbers :
            LET got == SelectTrainId(conn, number)
                N == Len(StopsOf(schedules_json, number))
            IN  got # None =>
                    {conn.train_stops[k].stop_sequence : k \in StopsOfTrain(conn, got[1])}
                        = 1..N

(* C3 as stated: after reconciliation every stop row has day_offset >= 0,  *)
(* whatever the day field of its record holds.                             *)
C3_DayOffsetNeverNegative ==
    pc = "schedules" =>
        \A k \in 1..Len(conn.train_stops) : conn.train_stops[k].day_offset >= 0

(* C3, amended: the row import_schedules writes for a record stores the    *)
(* record's day minus 1, an absent or null day counting as day 1; it is    *)
(* >= 0 for every record whose day is absent, null or at least 1.          *)
C3_DayOffsetIsDayMinusOne ==
    pc = "schedules" =>
        \A number \in ScheduledNumbers :
            LET got == SelectTrainId(conn, number)
                sorted == stops_sorted(StopsOf(schedules_json, number))
            IN  got # None =>
                    \A seq \in 1..Len(sorted) :
                        \A k \in StopsOfTrain(conn, got[1]) :
                            conn.train_stops[k].stop_sequence = seq =>
                                LET day == sorted[seq].day
                                    given == IF day = None THEN 1 ELSE day[1]
                                IN  /\ conn.train_stops[k].day_offset = given - 1
                                    /\ given >= 1 => conn.train_stops[k].day_offset >= 0

(* C3, its case: a train reconciled from a record without a day and a      *)
(* record of day 2, stored with day offsets 0 and 1.                       *)
C3_Witness ==
    /\ pc = "schedules"
    /\ \E i, j \in 1..Len(schedules_json) :
           /\ schedules_json[i].day = None
           /\ schedules_json[j].day = Some(2)
           /\ schedules_json[i].train_number = schedules_json[j].train_number
    /\ \E k \in 1..Len(conn.train_stops) : conn.train_stops[k].day_offset = 1
    /\ \E k \in 1..Len(conn.train_stops) :
           conn.train_stops[k].day_offset = 0 /\ conn.train_stops[k].stop_sequence = 1

(* C10: a second run of the whole import on the same input, against the   *)
(* database the first run left, raises no error and leaves stations,       *)
(* trains and train_stops as they were after the first run.                *)
C10_SecondRunChangesNothing ==
    (Len(exits) >= 2 /\ exits[1] = 0) =>
        /\ exits[2] = 0
        /\ after_run[2].stations = after_run[1].stations
        /\ after_run[2].trains = after_run[1].trains
        /\ after_run[2].train_stops = after_run[1].train_stops

---------------------------------------------------------------------------
(* Properties of the seat generator (specification SeatSpec).              *)

RowsOfRun(table, id) == SelectSeq(table, LAMBDA row : row.train_run_id = id)

(* The configuration generation reads for a run.                           *)
ParsedOf(id) == parse_classes_config(seat_trains[train_runs[id].train_id].classes)

DistanceOf(id) == seat_trains[train_runs[id].train_id].distance_km

(* C4: once the generator has been invoked for a run, every later          *)
(* invocation covering that run creates and reports zero seats for it and  *)
(* leaves its seat rows and its counters unchanged.                        *)
C4_LaterInvocationsChangeNothing ==
    [][\A id \in last_call'.covered \cap invoked :
           /\ last_call'.created[id] = 0
           /\ RowsOfRun(seats', id) = RowsOfRun(seats, id)
           /\ train_runs'[id] = train_runs[id]]_vars

(* C5: for every class configuration, the seat rows generated for one run  *)
(* have pairwise distinct seat numbers.                                    *)
C5_SeatNumbersDistinct ==
    \A id \in last_call.covered :
        ~ParsedOf(id).raised =>
            LET all_seats == AllSeats(id, ParsedOf(id).config, DistanceOf(id)) IN
            \A i, j \in 1..Len(all_seats) :
                all_seats[i].seat_number = all_seats[j].seat_number => i = j

(* The berth type a stored seat row carries, None when it carries none.    *)
BerthOf(row) == IF "berth_type" \in DOMAIN row THEN row.berth_type ELSE None

(* The index of a seat within its coach, read back from its seat number.   *)
SeatIndexOf(row) ==
    CHOOSE n \in 1..Max({default_seats, MaxSeatsPerCoach}) :
        SeatNumber(row.coach_number, n) = row.seat_number

(* C6: every stored seat row of class SL, 3A, 2A or 1A carries the berth   *)
(* type its seat index determines, and a row of any other class carries    *)
(* none.                                                                   *)
C6_BerthTypeStored ==
    \A k \in 1..Len(seats) :
        BerthOf(seats[k]) = BerthType(seats[k].seat_class, SeatIndexOf(seats[k]))

(* C7: the price of every generated seat is distance x rate: the train's   *)
(* distance when known and 500 km otherwise, the class's rate when the     *)
(* rate table has one and the default rate otherwise.                      *)
C7_PriceIsDistanceTimesRate ==
    \A k \in 1..Len(seats) :
        LET row == seats[k]
            distance_km == DistanceOf(row.train_run_id)
            distance == IF distance_km # None THEN distance_km[1] ELSE default_km
            rate == IF row.seat_class \in DOMAIN BASE_PRICE_PER_KM
                    THEN BASE_PRICE_PER_KM[row.seat_class] ELSE default_rate
        IN  row.price_cents = distance * rate

(* C8: after a generation (single-run or batch) that returned, each run it *)
(* covered has total_seats = available_seats = its number of seat rows.    *)
C8_CountersMatchRows ==
    (last_call.op # "none" /\ ~last_call.raised) =>
        \A id \in last_call.covered :
            /\ train_runs[id].total_seats = train_runs[id].available_seats
            /\ train_runs[id].total_seats = SeatCount(seats, id)

(* C9: for every class configuration, after generation for a run the run   *)
(* has, for each class c, exactly coaches(c) x seats_per_coach(c) seats of *)
(* class c, in coaches labelled prefix 1..coaches(c) with seat indexes     *)
(* 1..seats_per_coach(c).                                                  *)
C9_SeatsPerClass ==
    \A id \in last_call.covered :
        ~ParsedOf(id).raised =>
            \A c \in 1..Len(ParsedOf(id).config) :
                LET class == ParsedOf(id).config[c]
                    rows == SelectSeq(RowsOfRun(seats, id),
                                      LAMBDA row : row.seat_class = class.class_code)
                    prefix == Get(COACH_PREFIX, class.class_code, "X")
                IN  /\ Len(rows) = class.coaches * class.seats_per_coach
                    /\ {<<rows[k].coach_number, rows[k].seat_number>> : k \in 1..Len(rows)}
                         = {<<CoachName(prefix, coach_num),
                              SeatNumber(CoachName(prefix, coach_num), seat_num)>> :
                                coach_num \in 1..class.coaches,
                                seat_num \in 1..class.seats_per_coach}

---------------------------------------------------------------------------
(* import_schedules: failures, unknown trains, ordering, upsert.           *)

TrainKnown(db, number) == \E k \in 1..Len(db.trains) : db.trains[k].number = number

StationsKnown(db, records) ==
    \A k \in 1..Len(records) :
        \E j \in 1..Len(db.stations) : db.stations[j].code = records[k].station_code

(* C11: a failure while one train's records are reconciled does not keep   *)
(* the other trains' records from being reconciled and persisted: after    *)
(* the reconciliation step, however it ended, every scheduled train that   *)
(* is in trains and whose records all name known stations has its          *)
(* sequences 1..N in the committed train_stops.                            *)
C11_OtherTrainsPersisted ==
    [][(pc = "trains" /\ pc' \in {"schedules", "failed"}) =>
        \A number \in ScheduledNumbers :
            LET records == StopsOf(schedules_json, number) IN
            (TrainKnown(conn, number) /\ StationsKnown(conn, records)) =>
                \A seq \in 1..Len(records) :
                    \E k \in 1..Len(disk'.train_stops) :
                        /\ disk'.train_stops[k].train_id = SelectTrainId(conn, number)[1]
                        /\ disk'.train_stops[k].stop_sequence = seq]_vars

KnownRecords(db, records) == SelectSeq(records, LAMBDA r : TrainKnown(db, r.train_number))

(* C12: schedule records whose train number has no trains row cause no     *)
(* write and no error, and the records of known trains are still           *)
(* reconciled: the reconciliation step ends as it would have ended on the  *)
(* input without those records, tables, counters and outcome alike, and    *)
(* with records of unknown trains only it succeeds and leaves train_stops  *)
(* as it was.                                                              *)
C12_UnknownTrainsSkipped ==
    [][(pc = "trains" /\ pc' \in {"schedules", "failed"}) =>
        LET kept == KnownRecords(conn, schedules_json)
            expected == import_schedules(conn, disk, stats, kept)
        IN  /\ conn' = expected.db
            /\ disk' = expected.disk
            /\ stats' = expected.stats
            /\ (pc' = "failed") = expected.error
            /\ kept = <<>> => /\ pc' = "schedules"
                              /\ conn'.train_stops = conn.train_stops
                              /\ disk'.train_stops = conn.train_stops]_vars

(* A run reconciled a record of a known train next to a record of a train  *)
(* that is not in trains.                                                  *)
C12_Witness ==
    /\ pc = "schedules"
    /\ \E i, j \in 1..Len(schedules_json) :
           /\ ~TrainKnown(conn, schedules_json[i].train_number)
           /\ TrainKnown(conn, schedules_json[j].train_number)
    /\ stats.stops_imported = 1
    /\ Len(disk.train_stops) = 1

(* C13: within a train the records are ordered by day and then by          *)
(* departure, an absent departure counting as the earliest time: after a   *)
(* reconciliation a stop written without a departure time (the record's    *)
(* departure absent, null or the literal "None") has a lower sequence than *)
(* every stop of the same day written with a departure time.               *)
C13_TimelessStopsFirst ==
    pc = "schedules" =>
        \A number \in ScheduledNumbers :
            TrainKnown(conn, number) =>
                LET N == Len(StopsOf(schedules_json, number))
                    written == {k \in StopsOfTrain(conn, SelectTrainId(conn, number)[1]) :
                                   conn.train_stops[k].stop_sequence <= N}
                IN  \A a, b \in written :
                        (/\ conn.train_stops[a].day_offset = conn.train_stops[b].day_offset
                         /\ conn.train_stops[a].departure_time = None
                         /\ conn.train_stops[b].departure_time # None)
                        => conn.train_stops[a].stop_sequence
                               < conn.train_stops[b].stop_sequence

DaysOfRecords(records) == {DayOf(records[k]) : k \in 1..Len(records)}

(* C14: for a train whose records carry days 1 and 2, after a              *)
(* reconciliation every stop stored with day offset 0 has a lower          *)
(* stop_sequence than every stop stored with day offset 1, and within a    *)
(* day the stops that have a departure time are in non-decreasing order of *)
(* it.                                                                     *)
C14_DayOneBeforeDayTwo ==
    pc = "schedules" =>
        \A number \in ScheduledNumbers :
            (TrainKnown(conn, number)
             /\ DaysOfRecords(StopsOf(schedules_json, number)) = {1, 2}) =>
                LET rows == StopsOfTrain(conn, SelectTrainId(conn, number)[1]) IN
                \A a, b \in rows :
                    /\ (conn.train_stops[a].day_offset = 0
                        /\ conn.train_stops[b].day_offset = 1)
                       => conn.train_stops[a].stop_sequence
                              < conn.train_stops[b].stop_sequence
                    /\ (/\ conn.train_stops[a].day_offset = conn.train_stops[b].day_offset
                        /\ conn.train_stops[a].stop_sequence
                               < conn.train_stops[b].stop_sequence
                        /\ conn.train_stops[a].departure_time # None
                        /\ conn.train_stops[b].departure_time # None)
                       => ~StrLess(conn.train_stops[b].departure_time[1],
                                   conn.train_stops[a].departure_time[1])

(* The time a record's field is stored as.                                 *)
StoredTime(t) == IF t = Some("None") THEN None ELSE t

(* C15: each record is stored by upsert on (train, sequence), overwriting  *)
(* station, arrival, departure and day offset of an existing row, with the *)
(* literal "None" stored as null: after a successful reconciliation step   *)
(* the row (train, seq) is the only row with that key and holds the        *)
(* seq-th record in sort order.  Running import_schedules again on the     *)
(* same records, over the train_stops the first run left, leaves           *)
(* train_stops identical.                                                  *)
C15_UpsertOverwritesAndRepeats ==
    [][(pc = "trains" /\ pc' = "schedules") =>
        /\ \A number \in ScheduledNumbers :
               TrainKnown(conn, number) =>
                   LET id == SelectTrainId(conn, number)[1]
                       sorted == stops_sorted(StopsOf(schedules_json, number))
                   IN  \A seq \in 1..Len(sorted) :
                           \E k \in 1..Len(conn'.train_stops) :
                               /\ conn'.train_stops[k] =
                                      [train_id |-> id,
                                       station_code |-> sorted[seq].station_code,
                                       stop_sequence |-> seq,
                                       arrival_time |-> StoredTime(sorted[seq].arrival),
                                       departure_time |-> StoredTime(sorted[seq].departure),
                                       day_offset |-> DayOf(sorted[seq]) - 1]
                               /\ \A j \in 1..Len(conn'.train_stops) :
                                      (/\ conn'.train_stops[j].train_id = id
                                       /\ conn'.train_stops[j].stop_sequence = seq) => j = k
        /\ (/\ Len(after_run) >= 1
            /\ exits[Len(exits)] = 0
            /\ conn.train_stops = after_run[Len(after_run)].train_stops)
           => /\ conn'.train_stops = conn.train_stops
              /\ disk'.train_stops = conn.train_stops]_vars

(* A second run has reconciled again a record with the literal "None" as   *)
(* its times, at station B, over the draft stop A of the route.            *)
C15_Witness ==
    /\ pc = "schedules"
    /\ Len(after_run) = 1 /\ exits[1] = 0
    /\ conn.train_stops = after_run[1].train_stops
    /\ Len(mapped) = 1 /\ mapped[1].mapped_stations # <<>>
    /\ mapped[1].mapped_stations[1][1] = "A"
    /\ \E i \in 1..Len(schedules_json) : schedules_json[i].departure = Some("None")
    /\ \E k \in 1..Len(conn.train_stops) :
           /\ conn.train_stops[k].train_id = 1
           /\ conn.train_stops[k].stop_sequence = 1
           /\ conn.train_stops[k].station_code = "B"
           /\ conn.train_stops[k].departure_time = None

---------------------------------------------------------------------------
(* seed_seats (specification SeatSpec).                                    *)

(* C16: seed_seats invoked with dry_run changes nothing in the database:   *)
(* the seats and the train_runs rows after the call are those before it.   *)
C16_DryRunChangesNothing ==
    [][last_call'.op = "seed_dry_run" =>
        /\ seats' = seats
        /\ train_runs' = train_runs]_vars

---------------------------------------------------------------------------
(* map_route_to_stations: warnings (specification Spec).                   *)

(* The distances from a route point to the stations that have coordinates. *)
StationDistances(lat) ==
    {haversine_distance(lat, stations_json[i].coordinates[1]) :
        i \in {j \in 1..Len(stations_json) : stations_json[j].coordinates # None}}

(* No station lies within the mapping radius of the point.                 *)
Far(lat) == \A d \in StationDistances(lat) : d > threshold_km

(* The warnings a step has appended, as positions in the table after it.   *)
NewWarnings(before, after) ==
    (Len(before.mapping_warnings) + 1)..Len(after.mapping_warnings)

MaxIndex == Max({Len(trains_json[i].coordinates) : i \in 1..Len(trains_json)} \cup {0})

(* C17: for every route coordinate whose nearest station is farther than   *)
(* the mapping radius, or for which there is no station at all, the mapper *)
(* appends nothing to the stop list and records exactly one                *)
(* NO_STATION_NEARBY warning for that coordinate index, and goes on with   *)
(* the next coordinate: in every import_trains step no accepted entry      *)
(* points at such a coordinate, and the step appends one such warning per  *)
(* mapped feature and far coordinate, and no other.                        *)
C17_NoStationNearbyWarned ==
    [][(pc = "stations" /\ pc' \in {"trains", "failed"}) =>
        /\ \A k \in 1..Len(mapped') :
               \A e \in 1..Len(mapped'[k].mapped_stations) :
                   ~Far(mapped'[k].coordinates[mapped'[k].mapped_stations[e][2] + 1])
        /\ \A number \in TrainNumbers, idx \in 0..MaxIndex :
               Cardinality({w \in NewWarnings(conn, conn') :
                               /\ conn'.mapping_warnings[w].train_number = number
                               /\ conn'.mapping_warnings[w].coordinate_index = idx
                               /\ conn'.mapping_warnings[w].warning_type
                                      = "NO_STATION_NEARBY"})
               = Cardinality({k \in 1..Len(mapped') :
                               /\ mapped'[k].train_number = number
                               /\ mapped'[k].coordinates # <<>>
                               /\ idx < Len(mapped'[k].coordinates)
                               /\ Far(mapped'[k].coordinates[idx + 1])})]_vars

(* A route whose first point has no station nearby and whose second point  *)
(* was mapped: one warning for index 0, one stop accepted at index 1.      *)
C17_Witness ==
    /\ pc = "trains"
    /\ Len(mapped) = 1
    /\ Len(mapped[1].coordinates) >= 2
    /\ Far(mapped[1].coordinates[1])
    /\ mapped[1].mapped_stations # <<>>
    /\ mapped[1].mapped_stations[1][2] = 1
    /\ stats.route_coords_unmapped = 1
    /\ \E w \in 1..Len(conn.mapping_warnings) :
           /\ conn.mapping_warnings[w].coordinate_index = 0
           /\ conn.mapping_warnings[w].warning_type = "NO_STATION_NEARBY"

(* The stations at the least distance from a route point.                  *)
NearestCodes(lat) ==
    {stations_json[i].code :
        i \in {j \in 1..Len(stations_json) :
                  /\ stations_json[j].coordinates # None
                  /\ haversine_distance(lat, stations_json[j].coordinates[1])
                         = Min(StationDistances(lat))}}

(* The match is within the radius and farther than the warning distance.   *)
LargeMatch(lat) ==
    /\ ~Far(lat) /\ StationDistances(lat) # {}
    /\ Min(StationDistances(lat)) > large_distance_km

(* The entries of a draft accepted before coordinate idx.                  *)
AcceptedBefore(mapped_stations, idx) ==
    {e \in 1..Len(mapped_stations) : mapped_stations[e][2] < idx}

WarningsOfType(db, positions, type) ==
    {w \in positions : db.mapping_warnings[w].warning_type = type}

(* C18: a coordinate matched to a station at more than 5 km (and within    *)
(* the radius) gets one LARGE_DISTANCE warning naming that station and     *)
(* distance, and is still accepted under the deduplication rule; a match   *)
(* at 5 km or less gets no warning.  Every matched coordinate is either    *)
(* accepted with a nearest station or has as nearest station the stop      *)
(* accepted last before it.  The route [A, A, B, 10 km from C, nothing     *)
(* within 15 km] yields the stops A, B, C, one LARGE_DISTANCE and one      *)
(* NO_STATION_NEARBY warning.                                              *)
C18_LargeDistanceWarnedAndAccepted ==
    [][(pc = "stations" /\ pc' \in {"trains", "failed"}) =>
        /\ \A number \in TrainNumbers, idx \in 0..MaxIndex :
               LET large == {w \in WarningsOfType(conn', NewWarnings(conn, conn'),
                                                  "LARGE_DISTANCE") :
                                /\ conn'.mapping_warnings[w].train_number = number
                                /\ conn'.mapping_warnings[w].coordinate_index = idx}
               IN  /\ Cardinality(large)
                      = Cardinality({k \in 1..Len(mapped') :
                                       /\ mapped'[k].train_number = number
                                       /\ idx < Len(mapped'[k].coordinates)
                                       /\ LargeMatch(mapped'[k].coordinates[idx + 1])})
                   /\ \A w \in large :
                          LET lat == conn'.mapping_warnings[w].latitude IN
                          /\ conn'.mapping_warnings[w].distance_km
                                 = Some(Min(StationDistances(lat)))
                          /\ conn'.mapping_warnings[w].nearest_station_code # None
                          /\ conn'.mapping_warnings[w].nearest_station_code[1]
                                 \in NearestCodes(lat)
        /\ \A k \in 1..Len(mapped') :
               LET coordinates == mapped'[k].coordinates
                   mapped_stations == mapped'[k].mapped_stations
               IN  \A idx \in 0..(Len(coordinates) - 1) :
                       ~Far(coordinates[idx + 1]) =>
                           \/ \E e \in 1..Len(mapped_stations) :
                                  /\ mapped_stations[e][2] = idx
                                  /\ mapped_stations[e][1] \in NearestCodes(coordinates[idx + 1])
                           \/ LET before == AcceptedBefore(mapped_stations, idx) IN
                              /\ before # {}
                              /\ mapped_stations[Max(before)][1]
                                     \in NearestCodes(coordinates[idx + 1])
        /\ (stations_json = ScenarioStations /\ Len(conn.mapping_warnings) = 0
            /\ pc' = "trains") =>
               /\ mapped'[1].mapped_stations = << <<"A", 0>>, <<"B", 2>>, <<"C", 3>> >>
               /\ Len(conn'.mapping_warnings) = 2
               /\ Cardinality(WarningsOfType(conn', NewWarnings(conn, conn'),
                                             "LARGE_DISTANCE")) = 1
               /\ Cardinality(WarningsOfType(conn', NewWarnings(conn, conn'),
                                             "NO_STATION_NEARBY")) = 1]_vars

(* The route [A, A, B, 10 km from C, nothing within 15 km] has been        *)
(* mapped: C was accepted at index 3 with a LARGE_DISTANCE warning.        *)
C18_Witness ==
    /\ pc = "trains"
    /\ stations_json = ScenarioStations
    /\ Len(mapped) = 1
    /\ mapped[1].coordinates = ScenarioRoute
    /\ mapped[1].mapped_stations[Len(mapped[1].mapped_stations)] = <<"C", 3>>
    /\ \E w \in 1..Len(conn.mapping_warnings) :
           /\ conn.mapping_warnings[w].warning_type = "LARGE_DISTANCE"
           /\ conn.mapping_warnings[w].coordinate_index = 3
           /\ conn.mapping_warnings[w].nearest_station_code = Some("C")
           /\ conn.mapping_warnings[w].distance_km = Some(10)

IsPrefix(s, t) == Len(s) <= Len(t) /\ SubSeq(t, 1, Len(s)) = s

(* C19: mapping_warnings is append-only.  No step of the pipeline, a       *)
(* second run included, updates or deletes a warning: every step leaves    *)
(* the committed rows in place, unchanged and in order, possibly followed  *)
(* by new ones, and so does every statement executed on a connection       *)
(* (closing a connection drops only the rows it had not committed).        *)
C19_WarningsAppendOnly ==
    [][/\ IsPrefix(disk.mapping_warnings, disk'.mapping_warnings)
       /\ pc' # "idle" => IsPrefix(conn.mapping_warnings, conn'.mapping_warnings)]_vars

(* A second run has appended its warnings after those of the first run.    *)
C19_Witness ==
    /\ pc = "trains"
    /\ Len(after_run) = 1
    /\ after_run[1].mapping_warnings # <<>>
    /\ Len(disk.mapping_warnings) = 2 * Len(after_run[1].mapping_warnings)
    /\ IsPrefix(after_run[1].mapping_warnings, disk.mapping_warnings)

---------------------------------------------------------------------------
(* SpatialIndex.find_nearest (specification Spec).                         *)

(* The positions in stations.json of the stations that have coordinates.   *)
Located == {j \in 1..Len(stations_json) : stations_json[j].coordinates # None}

(* The first station, in insertion order, at the least distance.           *)
FirstNearest(lat) ==
    Min({j \in Located :
            haversine_distance(lat, stations_json[j].coordinates[1])
                = Min(StationDistances(lat))})

RoutePoints ==
    UNION {{trains_json[i].coordinates[k] : k \in 1..Len(trains_json[i].coordinates)} :
              i \in 1..Len(trains_json)}

(* C20: find_nearest returns none when the station set is empty or the     *)
(* least distance exceeds the maximum, and otherwise the least distance    *)
(* together with the first station in insertion order that achieves it (a  *)
(* station at exactly the maximum is returned); stations without           *)
(* coordinates are never in the candidate list.  Stated of the index       *)
(* import_stations built and of every route point the mapper queries.      *)
C20_FirstNearestWithinMax ==
    spatial_index # None =>
        /\ \A e \in 1..Len(spatial_index[1].stations_with_coords) :
               \E j \in Located :
                   stations_json[j].code = spatial_index[1].stations_with_coords[e][1]
        /\ \A lat \in RoutePoints :
               LET result == find_nearest(spatial_index[1], lat, threshold_km) IN
               IF Located = {} \/ Min(StationDistances(lat)) > threshold_km
               THEN result = None
               ELSE result = <<stations_json[FirstNearest(lat)].code,
                               Min(StationDistances(lat))>>

(* The index over the same stations searched by the BallTree, and by the   *)
(* brute-force loop.                                                       *)
TreeIndex(index) == [index EXCEPT !.use_tree = Len(index.stations_with_coords) > 0]
ScanIndex(index) == [index EXCEPT !.use_tree = FALSE]

Radii == {large_distance_km, threshold_km}

(* C21: for every station set, query point and radius the BallTree path    *)
(* and the brute-force path of find_nearest return the same result: both   *)
(* none, or the same station code with the same distance, also when        *)
(* several stations are at the same least distance.                        *)
C21_TreeEqualsBruteForce ==
    spatial_index # None =>
        \A lat \in RoutePoints, max_distance_km \in Radii :
            find_nearest(TreeIndex(spatial_index[1]), lat, max_distance_km)
                = find_nearest(ScanIndex(spatial_index[1]), lat, max_distance_km)

---------------------------------------------------------------------------
(* parse_classes_config and the batch generator (specification SeatSpec).  *)

ClassesOf(id) == seat_trains[train_runs[id].train_id].classes

(* What the configuration text says of its k-th class.                     *)
ConfiguredItem(item) ==
    IF item.value.t = "int"
    THEN [class_code |-> item.class_code, coaches |-> item.value.v,
          seats_per_coach |-> IF item.class_code = "SL" THEN 72 ELSE default_seats]
    ELSE [class_code |-> item.class_code,
          coaches |-> IF item.value.coaches = None THEN 1 ELSE item.value.coaches[1],
          seats_per_coach |-> IF item.value.seats_per_coach # None
                              THEN item.value.seats_per_coach[1]
                              ELSE IF item.class_code = "SL" THEN 72 ELSE default_seats]

(* C22: parse_classes_config never raises and returns a non-empty mapping; *)
(* for a configuration that is absent, empty, not valid JSON, or valid     *)
(* JSON that is not a class-code mapping it returns exactly one SL coach   *)
(* with 72 seats; a bare integer n for class c becomes n coaches with c's  *)
(* default seats per coach, an object supplies its own coaches and         *)
(* seats_per_coach.  Stated of the configuration of every run a generator  *)
(* has been called for.                                                    *)
C22_ParseNeverRaises ==
    \A id \in invoked :
        LET classes_json == ClassesOf(id)
            parsed == parse_classes_config(classes_json)
        IN  /\ ~parsed.raised
            /\ parsed.config # <<>>
            /\ classes_json.kind \in {"empty", "invalid", "scalar"} =>
                   parsed.config = << [class_code |-> "SL", coaches |-> 1,
                                       seats_per_coach |-> 72] >>
            /\ classes_json.kind = "object" =>
                   \A k \in 1..Len(classes_json.items) :
                       classes_json.items[k].value.t \in {"int", "dict"} =>
                           \E j \in 1..Len(parsed.config) :
                               parsed.config[j] = ConfiguredItem(classes_json.items[k])

BatchOps == {"batch", "seed", "seed_dry_run"}

(* The seats a run's configuration defines.                                *)
SeatsDefined(id) == AllSeats(id, ParsedOf(id).config, DistanceOf(id))

(* C23: in batch mode, when generation fails while processing the k-th     *)
(* selected run, the seats and counters of the runs processed before it    *)
(* remain committed exactly as generated: after a failed batch call every  *)
(* run the loop came to, but the one it failed on, has exactly the seat    *)
(* rows of its configuration and both counters equal to their number, and  *)
(* the run it failed on is as it was.                                      *)
C23_FailureKeepsEarlierRuns ==
    [][(last_call'.op \in BatchOps /\ last_call'.raised) =>
        LET selected == {id \in last_call'.covered : SeatCount(seats, id) = 0}
            generated == {id \in selected :
                            /\ ~ParsedOf(id).raised
                            /\ RowsOfRun(seats', id) = SeatsDefined(id)
                            /\ train_runs'[id].total_seats = Len(SeatsDefined(id))
                            /\ train_runs'[id].available_seats = Len(SeatsDefined(id))}
        IN  /\ Cardinality(selected \ generated) = 1
            /\ \A id \in selected \ generated :
                   /\ RowsOfRun(seats', id) = <<>>
                   /\ train_runs'[id] = train_runs[id]
            /\ \A id \in generated : last_call'.created[id] = Len(SeatsDefined(id))]_vars

(* A batch call has failed on its second run after generating the seats of *)
(* its first run, and those seats are in the table.                        *)
C23_Witness ==
    /\ last_call.op = "batch"
    /\ last_call.raised
    /\ \E id \in last_call.covered :
           /\ last_call.created[id] > 0
           /\ SeatCount(seats, id) = last_call.created[id]
           /\ train_runs[id].total_seats = last_call.created[id]
    /\ \E id \in last_call.covered : SeatCount(seats, id) = 0

(* The runs dated today .. today + days - 1, of the given trains when a    *)
(* filter is passed.                                                       *)
Window(days, train_ids) ==
    {id \in 1..Len(train_runs) :
        /\ train_runs[id].run_date \in 0..(days - 1)
        /\ train_ids = <<>> \/ \E k \in 1..Len(train_ids) :
                                  train_ids[k] = train_runs[id].train_id}

Filters == {<<>>} \cup {<<t>> : t \in 1..Len(seat_trains)}

(* No seat and no counter of the run is changed by the step.               *)
RunUnchanged(id) ==
    /\ RowsOfRun(seats', id) = RowsOfRun(seats, id)
    /\ train_runs'[id] = train_runs[id]

(* C24 as stated: when generate_seats_for_runs(days = d) returns normally, *)
(* every run in the window (of the given trains when a filter is passed)   *)
(* that had zero seats before the call has seats after it, and no run      *)
(* outside the window and no run that already had seats has any seat or    *)
(* counter changed.                                                        *)
C24_WindowRunsHaveSeats ==
    [][(last_call'.op = "batch" /\ ~last_call'.raised) =>
        \A days \in 1..MaxDays, batch_size \in BatchSizes, train_ids \in Filters :
            GenerateSeatsForRuns(days, batch_size, train_ids) =>
                \A id \in 1..Len(train_runs) :
                    IF id \in Window(days, train_ids) /\ SeatCount(seats, id) = 0
                    THEN SeatCount(seats', id) > 0
                    ELSE RunUnchanged(id)]_vars

(* C24, amended: such a run has after the call exactly the seats its       *)
(* train's class configuration defines, none when it defines no seat, and  *)
(* both counters equal to their number; every other run is unchanged.      *)
C24_WindowRunsGenerated ==
    [][(last_call'.op = "batch" /\ ~last_call'.raised) =>
        \A days \in 1..MaxDays, batch_size \in BatchSizes, train_ids \in Filters :
            GenerateSeatsForRuns(days, batch_size, train_ids) =>
                \A id \in 1..Len(train_runs) :
                    IF id \in Window(days, train_ids) /\ SeatCount(seats, id) = 0
                    THEN /\ RowsOfRun(seats', id) = SeatsDefined(id)
                         /\ train_runs'[id].total_seats = Len(SeatsDefined(id))
                         /\ train_runs'[id].available_seats = Len(SeatsDefined(id))
                         /\ train_runs'[id].train_id = train_runs[id].train_id
                         /\ train_runs'[id].run_date = train_runs[id].run_date
                    ELSE RunUnchanged(id)]_vars

(* A batch call has returned normally having generated the seats of a run  *)
(* and set the counters of a run whose configuration defines no seat,      *)
(* while a run outside its window still has no seat.                       *)
C24_Witness ==
    /\ last_call.op = "batch"
    /\ ~last_call.raised
    /\ \E id \in last_call.covered :
           SeatCount(seats, id) > 0 /\ last_call.created[id] = SeatCount(seats, id)
    /\ \E id \in last_call.covered :
           /\ SeatsDefined(id) = <<>>
           /\ train_runs[id].total_seats = 0
    /\ \E id \in (1..Len(train_runs)) \ last_call.covered :
           /\ SeatCount(seats, id) = 0
           /\ train_runs[id].total_seats = SampleCounter

---------------------------------------------------------------------------
(* Draft stops and reconciliation (specification Spec).                    *)

IsDraftRow(row) ==
    row.arrival_time = None /\ row.departure_time = None /\ row.day_offset = 0

(* C25: in a pipeline run every draft stop write happens before any        *)
(* reconciliation write, and a draft write never changes a stop row that   *)
(* exists: the draft phase (import_trains), also of a run after a          *)
(* reconciliation, leaves every existing train_stops row as it was and     *)
(* only appends draft rows, and once the reconciliation phase of a run has *)
(* been entered nothing writes train_stops in that run but the             *)
(* reconciliation itself.                                                  *)
C25_DraftsBeforeReconciliation ==
    [][/\ pc = "stations" =>
           /\ IsPrefix(conn.train_stops, conn'.train_stops)
           /\ IsPrefix(disk.train_stops, disk'.train_stops)
           /\ \A k \in (Len(conn.train_stops) + 1)..Len(conn'.train_stops) :
                  IsDraftRow(conn'.train_stops[k])
       /\ pc \in {"connected", "schedules", "runs"} =>
           /\ conn'.train_stops = conn.train_stops
           /\ disk'.train_stops = disk.train_stops
       /\ conn'.train_stops # conn.train_stops => pc \in {"stations", "trains", "failed"}
       /\ (pc = "failed" /\ conn'.train_stops # conn.train_stops) =>
              conn'.train_stops = disk.train_stops]_vars

(* A second run has passed its draft phase over the reconciled stop B at   *)
(* sequence 1, where its route's draft has A.                              *)
C25_Witness ==
    /\ pc = "trains"
    /\ Len(after_run) = 1 /\ exits[1] = 0
    /\ Len(mapped) = 1 /\ mapped[1].mapped_stations # <<>>
    /\ mapped[1].mapped_stations[1] = <<"A", 0>>
    /\ \E k \in 1..Len(conn.train_stops) :
           /\ conn.train_stops[k].train_id = mapped[1].train_id
           /\ conn.train_stops[k].stop_sequence = 1
           /\ conn.train_stops[k].station_code = "B"
           /\ conn.train_stops[k].departure_time = Some("08:00:00")

---------------------------------------------------------------------------
(* The number of schedule records of the train with this id.               *)
RecordCount(db, train_id) ==
    IF TrainIdExists(db, train_id)
    THEN Len(StopsOf(schedules_json, db.trains[train_id].number))
    ELSE 0

(* What import_schedules may write in the table of stops: row k of before  *)
(* is the same row of after unless it is a stop 1..N of a train with N     *)
(* records, a stop that is rewritten stays the stop of the same train and  *)
(* sequence number, and every new row is such a stop 1..N.                 *)
WritesOnlyScheduled(db, before, after) ==
    /\ Len(after) >= Len(before)
    /\ \A k \in 1..Len(before) :
           /\ after[k].train_id = before[k].train_id
           /\ after[k].stop_sequence = before[k].stop_sequence
           /\ before[k].stop_sequence > RecordCount(db, before[k].train_id)
                  => after[k] = before[k]
    /\ \A k \in (Len(before) + 1)..Len(after) :
           after[k].stop_sequence \in 1..RecordCount(db, after[k].train_id)

(* C26: reconciling a train that has N schedule records writes only the    *)
(* stop rows of that train with stop_sequence in 1..N; the stop rows of    *)
(* every other train, and the draft stop rows of the same train with a     *)
(* stop_sequence greater than N, are left unchanged, in the connection     *)
(* and in what is committed, also when the reconciliation fails.           *)
C26_ReconcileWritesOnlyScheduledStops ==
    [][pc = "trains" =>
          /\ WritesOnlyScheduled(conn, conn.train_stops, conn'.train_stops)
          /\ WritesOnlyScheduled(conn, disk.train_stops, disk'.train_stops)
          /\ conn'.trains = conn.trains]_vars

(* After a reconciliation that wrote stop 1 of train 1 from its only       *)
(* record: the train keeps a draft stop 2, and another train has a stop.   *)
C26_Witness ==
    /\ pc = "schedules"
    /\ stats.stops_imported = 1
    /\ RecordCount(conn, 1) = 1
    /\ \E k \in 1..Len(conn.train_stops) :
           /\ conn.train_stops[k].train_id = 1
           /\ conn.train_stops[k].stop_sequence = 2
           /\ IsDraftRow(conn.train_stops[k])
    /\ \E k \in 1..Len(conn.train_stops) : conn.train_stops[k].train_id = 2

---------------------------------------------------------------------------
(* C27: in import_trains the route geometry and the draft stops of a       *)
(* feature are stored under the id of the train that has the feature's     *)
(* number, also when that train existed before the insert-or-ignore:       *)
(* every route row the step adds and every feature it maps carries that    *)
(* id, after the first run and after a run that found the trains stored.   *)
C27_StoredUnderExistingTrain ==
    pc = "trains" =>
        /\ \A k \in 1..Len(mapped) :
               Some(mapped[k].train_id) = SelectTrainId(conn, mapped[k].train_number)
        /\ \A k \in 1..Len(conn.train_routes) :
               \E i \in 1..Len(trains_json) :
                   /\ trains_json[i].coordinates = conn.train_routes[k].coordinates_json
                   /\ Some(conn.train_routes[k].train_id)
                          = SelectTrainId(conn, trains_json[i].number)

---------------------------------------------------------------------------
(* C28: seat generation is all-or-nothing per run.  After any sequence of  *)
(* generator calls, calls that fail part-way through the batched inserts   *)
(* of a run included, every train run has either no seat in the table or   *)
(* exactly the seats its class configuration defines.                      *)
C28_RunAllOrNothing ==
    \A id \in 1..Len(train_runs) :
        \/ RowsOfRun(seats, id) = <<>>
        \/ /\ ~ParsedOf(id).raised
           /\ RowsOfRun(seats, id) = SeatsDefined(id)

(* A batch call has failed on a run whose first seat could be inserted and *)
(* whose later seat repeats a seat number: the run has no seat, and the    *)
(* run generated before it has all of its seats.                           *)
C28_Witness ==
    /\ last_call.op = "batch"
    /\ last_call.raised
    /\ \E id \in last_call.covered :
           /\ ~ParsedOf(id).raised
           /\ Len(SeatsDefined(id)) >= 2
           /\ ~InsertRaises(seats, <<SeatsDefined(id)[1]>>)
           /\ InsertRaises(seats, SeatsDefined(id))
           /\ RowsOfRun(seats, id) = <<>>
    /\ \E id \in last_call.covered :
           /\ last_call.created[id] > 0
           /\ RowsOfRun(seats, id) = SeatsDefined(id)

---------------------------------------------------------------------------
(* Both invocations have finished, and invocation p was the first to       *)
(* insert for its run while the other had passed the zero-seats check of   *)
(* the same run and not yet inserted.                                      *)
RaceOver(p) ==
    /\ sessions[p].raced
    /\ \A q \in Invocations : sessions[q].pos \in {"returned", "raised"}

SeatedOnce(id) ==
    LET rows == RowsOfRun(seats, id) IN
    \A i, j \in 1..Len(rows) : rows[i].seat_number = rows[j].seat_number => i = j

(* The first half of C29 alone: at most one seat per seat number.          *)
RaceSeatsOnce == \A p \in Invocations : RaceOver(p) => SeatedOnce(sessions[p].train_run_id)

(* C29: when two invocations of generate_seats_for_train_run for the same  *)
(* run interleave, both passing the zero-seats check before either         *)
(* inserts, the run ends with at most one seat per seat number and with    *)
(* total_seats equal to the number of stored seats.                        *)
C29_InterleavedRunSeatedOnce ==
    \A p \in Invocations :
        RaceOver(p) =>
            /\ SeatedOnce(sessions[p].train_run_id)
            /\ train_runs[sessions[p].train_run_id].total_seats
                   = SeatCount(seats, sessions[p].train_run_id)

---------------------------------------------------------------------------
SameKey(a, b) == DayOf(a) = DayOf(b) /\ DepartureKey(a) = DepartureKey(b)

(* The sequence number of record i of a train's records: one more than the *)
(* number of records with a smaller key and of earlier records with the    *)
(* same key.                                                               *)
Rank(stops, i) ==
    1 + Cardinality({j \in 1..Len(stops) :
                        \/ KeyLess(stops[j], stops[i])
                        \/ j < i /\ SameKey(stops[j], stops[i])})

(* C30: reconciliation is deterministic on ties.  After import_schedules   *)
(* every record of a stored train is the stop row whose sequence number is *)
(* its rank in the sort key with ties in the order of the input list, so   *)
(* two records of one train with the same key have sequence numbers in     *)
(* input order and the stop rows are a function of the input list.         *)
C30_TiesKeepInputOrder ==
    pc = "schedules" =>
        \A number \in ScheduledNumbers :
            LET got == SelectTrainId(conn, number)
                stops == StopsOf(schedules_json, number)
            IN  got # None =>
                    \A i \in 1..Len(stops) :
                        \E k \in 1..Len(conn.train_stops) :
                            conn.train_stops[k] = StopRow(got[1], Rank(stops, i), stops[i])

(* Two records of train 1 with the same key, the first at B and the second *)
(* at A, are stops 1 and 2 in that order.                                  *)
C30_Witness ==
    /\ pc = "schedules"
    /\ Len(schedules_json) = 2
    /\ schedules_json[1].train_number = schedules_json[2].train_number
    /\ SameKey(schedules_json[1], schedules_json[2])
    /\ schedules_json[1].station_code = "B"
    /\ schedules_json[2].station_code = "A"
    /\ \E k, l \in 1..Len(conn.train_stops) :
           /\ conn.train_stops[k].train_id = conn.train_stops[l].train_id
           /\ conn.train_stops[k].stop_sequence = 1
           /\ conn.train_stops[k].station_code = "B"
           /\ conn.train_stops[l].stop_sequence = 2
           /\ conn.train_stops[l].station_code = "A"

===========================================================================
